---- MODULE Spec2Model ----
(***************************************************************************)
(* Multi-agent customer service system: the A2A envelope, the agents'      *)
(* /a2a dispatch and the router's /query orchestration.                    *)
(*                                                                         *)
(* Encoding of JSON / Python values.  A scalar is a string; Absent stands  *)
(* for "the key is not in the dict" and Null for None / JSON null.  The    *)
(* customer id is its numeral ("0", "1", "12345").  A dict is a record     *)
(* that names every key the code reads, an absent key holding the Absent   *)
(* form of its type; a list is a sequence.  A text is the sequence of its  *)
(* whitespace-separated words.                                             *)
(***************************************************************************)
EXTENDS Integers, Sequences, FiniteSets, TLC

VARIABLES
    pc,            \* router /query handler: idle, gathering, done, rejected, crashed
    body,          \* the JSON body of the /query request
    classified,    \* (intents, entities) returned by classify_intents_with_llm
    tasks,         \* query_endpoint: the (target_url, msg) pairs handed to send_message
    task_metadata, \* query_endpoint: task_metadata
    results_raw,   \* query_endpoint: results_raw, the list the gather fills
    returned,      \* returned[k]: what agent.send_message returned to task k
    response,      \* what /query returns
    completed,     \* the tasks whose peer call has completed
    overtaken,     \* TRUE once a task has completed before a task built earlier
    posted,        \* every envelope POSTed to a peer's /a2a
    llm_calls,     \* number of query_llm calls made by the router
    uuid_ctr,      \* number of uuid.uuid4() values the router has drawn
    inbox,         \* an envelope POSTed to one agent's /a2a by any caller
    outbox,        \* that agent's reply
    checked,       \* last application of check_message_schema / generate_error_response
    sent,          \* an application of AgentConnector.send_message
    invoked,       \* an application of AgentConnector.invoke_tool
    routed,        \* an application of build_agent_task, with the peer call and the
                   \* ResultEntry made from the task
    oracle,        \* one query_llm call: its loop, the answers it got, what it returned
    hosts,         \* the invoke_tool calls in progress and the tool hosts they spawned
    loop           \* one agent process: its event loop thread and the requests it serves

vars == <<pc, body, classified, tasks, task_metadata, results_raw, returned, response,
          completed, overtaken, posted, llm_calls, uuid_ctr, inbox, outbox, checked,
          sent, invoked, routed, oracle, hosts, loop>>

queryVars == <<pc, body, classified, tasks, task_metadata, results_raw, returned, response,
               completed, overtaken, posted, llm_calls>>

a2aVars == <<inbox, outbox, checked>>

callVars == <<sent, invoked, routed, oracle>>

procVars == <<hosts, loop>>

-----------------------------------------------------------------------------
(* Scalars *)

Absent == "<absent>"

Null == "<null>"

\* Python truthiness of a scalar: None and "" are falsy, and so is the number 0.
Truthy(s) == s \notin {Absent, Null, "", "0"}

GetDefault(v, default) == default

\* dict.get(key, default)
Get(v, default) == IF v = Absent THEN default ELSE v

\* dict.get(key): None when the key is absent
GetNone(v) == Get(v, Null)

\* str(x) of a scalar
Str(s) == IF s = Null THEN "None" ELSE s

\* str(uuid.uuid4()): the n-th token drawn
Uuid(n) == "uuid-" \o ToString(n)

\* datetime.utcnow().isoformat()
UtcNow == "2025-01-01T00:00:00"

RECURSIVE JoinNames(_)
\* the text of a Python list of names
JoinNames(s) ==
    IF s = <<>> THEN ""
    ELSE IF Len(s) = 1 THEN "'" \o s[1] \o "'"
    ELSE "'" \o s[1] \o "', " \o JoinNames(Tail(s))

SeqToSet(s) == {s[i] : i \in DOMAIN s}

-----------------------------------------------------------------------------
(* Texts *)

AbsentText == [k |-> "absent", words |-> <<>>]

NullText == [k |-> "null", words |-> <<>>]

Text(words) == [k |-> "str", words |-> words]

\* a text that only has to be a string: the empty text counts as given
TextTruthyPresentOnly(t) == t.k = "str"

\* `not text`
TextTruthy(t) == t.k = "str" /\ t.words # <<>>

-----------------------------------------------------------------------------
(* Entities: the "entities" object of the oracle's answer *)

NoEntities == [k |-> "dict", email |-> Absent, status_filter |-> Absent, reason |-> Absent]

NullEntities == [k |-> "null", email |-> Absent, status_filter |-> Absent, reason |-> Absent]

AbsentEntities == [k |-> "absent", email |-> Absent, status_filter |-> Absent, reason |-> Absent]

-----------------------------------------------------------------------------
(* Handler results: what an intent handler returns, an element of a        *)
(* response payload.  kind: dict, list, text, null.  A dict names the keys *)
(* status, data, error, answer_text; rec names the rest of its content (a  *)
(* stored record).  A list has len elements.                               *)

HR(kind, status, data, error, rec, len) ==
    [kind |-> kind, status |-> status, data |-> data, error |-> error,
     answer_text |-> Absent, rec |-> rec, len |-> len]

NoneHR == HR("null", Absent, Absent, Absent, Absent, 0)

TextHR(t) == HR("text", Absent, Absent, Absent, t, 0)

ListHR(rec, n) == HR("list", Absent, Absent, Absent, rec, n)

-----------------------------------------------------------------------------
(* Payloads *)

NoKeys ==
    [customer_id |-> Absent, status |-> Absent, updates |-> Absent, data |-> Absent,
     text |-> AbsentText, entities |-> AbsentEntities, error |-> Absent]

DictPayload(d) == [kind |-> "dict", d |-> d, items |-> <<>>]

ListPayload(items) == [kind |-> "list", d |-> NoKeys, items |-> items]

EmptyDict == DictPayload(NoKeys)

NullPayload == [kind |-> "null", d |-> NoKeys, items |-> <<>>]

AbsentPayload == [kind |-> "absent", d |-> NoKeys, items |-> <<>>]

\* Python truthiness of a payload: None, {} and [] are falsy
PayloadTruthy(p) ==
    \/ p.kind = "dict" /\ p.d # NoKeys
    \/ p.kind = "list" /\ p.items # <<>>

-----------------------------------------------------------------------------
(* The intent field of an envelope: a single name or a list of names *)

AbsentIntent == [kind |-> "absent", names |-> <<>>]

NullIntent == [kind |-> "null", names |-> <<>>]

IntentName(n) == [kind |-> "name", names |-> <<n>>]

IntentList(ns) == [kind |-> "list", names |-> ns]

-----------------------------------------------------------------------------
(* 1. Agent Card & A2A Schema (agent_client.py) *)

\* n is the number of uuids drawn before the call; corr_id = Null when omitted
create_a2a_message(sender_id, recipient_id, intent, content, msg_type, corr_id, n) ==
    [message_id |-> Uuid(n + 1),
     from |-> sender_id,
     to |-> recipient_id,
     type |-> msg_type,
     intent |-> intent,
     payload |-> IF PayloadTruthy(content) THEN content ELSE EmptyDict,
     correlation_id |-> IF Truthy(corr_id) THEN corr_id ELSE Uuid(n + 2),
     timestamp |-> UtcNow]

\* the uuids one create_a2a_message call draws
UuidsDrawn(corr_id) == IF Truthy(corr_id) THEN 1 ELSE 2

required == <<"message_id", "from", "to", "type", "intent", "payload", "correlation_id">>

\* `f not in message`
KeyMissing(message, f) ==
    CASE f = "intent" -> message.intent.kind = "absent"
      [] f = "payload" -> message.payload.kind = "absent"
      [] OTHER -> message[f] = Absent

RECURSIVE MissingFrom(_, _)
MissingFrom(message, fs) ==
    IF fs = <<>> THEN <<>>
    ELSE (IF KeyMissing(message, Head(fs)) THEN <<Head(fs)>> ELSE <<>>)
         \o MissingFrom(message, Tail(fs))

\* a validation that accepts every dict
check_message_schema_lenient(message) == [ok |-> TRUE, missing |-> <<>>, error |-> ""]

check_message_schema_first_only(message) ==
    LET missing == MissingFrom(message, required)
    IN  IF missing # <<>>
        THEN [ok |-> FALSE, missing |-> <<Head(missing)>>,
              error |-> "Invalid A2A Message. Missing: [" \o JoinNames(<<Head(missing)>>) \o "]"]
        ELSE [ok |-> TRUE, missing |-> <<>>, error |-> ""]

\* ok, or the ValueError raised: the missing names and the exception's text
check_message_schema(message) ==
    LET missing == MissingFrom(message, required)
    IN  IF missing # <<>>
        THEN [ok |-> FALSE, missing |-> missing,
              error |-> "Invalid A2A Message. Missing: [" \o JoinNames(missing) \o "]"]
        ELSE [ok |-> TRUE, missing |-> <<>>, error |-> ""]

ErrorPayload(error_text) == DictPayload([NoKeys EXCEPT !.error = error_text])

generate_error_response_unswapped(orig_message, error_text, n) ==
    create_a2a_message(
        Get(orig_message.from, "unknown"),
        Get(orig_message.to, "unknown"),
        IF orig_message.intent.kind = "absent" THEN IntentName("error")
                                               ELSE orig_message.intent,
        ErrorPayload(error_text),
        "error",
        GetNone(orig_message.correlation_id),
        n)

generate_error_response(orig_message, error_text, n) ==
    create_a2a_message(
        Get(orig_message.to, "unknown"),
        Get(orig_message.from, "unknown"),
        IF orig_message.intent.kind = "absent" THEN IntentName("error")
                                               ELSE orig_message.intent,
        ErrorPayload(error_text),
        "error",
        GetNone(orig_message.correlation_id),
        n)

-----------------------------------------------------------------------------
(* Record storage behind the MCP tools (mcp_server/app.py, db_utils.py).   *)
(* The stored data: customer 1, active, with two tickets.                  *)

StoredCustomers == {"1"}

\* the status column of a stored customer
CustomerStatus(cid) == "active"

\* dict(row) of a customers row: it has a status key, and no data / error key
CustomerRecord(cid) == HR("dict", CustomerStatus(cid), Absent, Absent, "customer:" \o cid, 0)

\* tickets stored for a customer
TicketCount(cid) == IF cid \in StoredCustomers THEN 2 ELSE 0

\* update_customer with {} for data
EmptyUpdates == "<{}>"

\* arguments of a tool call
Args(customer_id, status, data) == [customer_id |-> customer_id, status |-> status, data |-> data]

LowerIdentity(w) == w

\* str.lower() on the words the model knows
Lower(w) ==
    CASE w = "Active" -> "active"
      [] w = "ACTIVE" -> "active"
      [] w = "Disabled" -> "disabled"
      [] w = "Update" -> "update"
      [] w = "Show" -> "show"
      [] w = "Get" -> "get"
      [] w = "I" -> "i"
      [] w = "ID" -> "id"
      [] w = "Refund" -> "refund"
      [] w = "Cancel" -> "cancel"
      [] OTHER -> w

\* the list_customers tool's "Normalize Inputs": the status filter handed to the
\* record store, Null for no filter
NormalizeStatus(status) ==
    IF ~Truthy(status) THEN Null
    ELSE IF Lower(status) \in {"active", "disabled"} THEN Lower(status)
    ELSE Null

\* What the tool function returns: raises = TRUE when it raises (pydantic
\* rejects the arguments, db_utils raises ValueError, sqlite raises).
ToolFunction(tool_name, arguments) ==
    LET cid == arguments.customer_id
        bad == ~Truthy(cid) /\ cid # "0"        \* customer_id missing or null: not an int
    IN  CASE tool_name = "get_customer" ->
               IF bad THEN [raises |-> TRUE, value |-> NoneHR]
               ELSE [raises |-> FALSE,
                     value |-> IF cid \in StoredCustomers THEN CustomerRecord(cid) ELSE NoneHR]
          [] tool_name = "get_customer_history" ->
               IF bad \/ cid \notin StoredCustomers THEN [raises |-> TRUE, value |-> NoneHR]
               ELSE [raises |-> FALSE,
                     value |-> HR("dict", Absent, Absent, Absent, "history:" \o cid, 0)]
          [] tool_name = "update_customer" ->
               IF bad \/ cid \notin StoredCustomers \/ ~Truthy(arguments.data)
                      \/ arguments.data = EmptyUpdates
               THEN [raises |-> TRUE, value |-> NoneHR]
               ELSE [raises |-> FALSE, value |-> CustomerRecord(cid)]
          [] tool_name = "list_customers" ->
               LET flt == NormalizeStatus(arguments.status)
                   hit == {c \in StoredCustomers : flt = Null \/ CustomerStatus(c) = flt}
               IN  [raises |-> FALSE,
                    value |-> ListHR(IF flt = Null THEN "customers" ELSE "customers:" \o flt,
                                     Cardinality(hit))]
          [] tool_name = "create_ticket" ->
               IF bad \/ cid \notin StoredCustomers THEN [raises |-> TRUE, value |-> NoneHR]
               ELSE [raises |-> FALSE,
                     value |-> HR("dict", "open", Absent, Absent, "ticket:" \o cid, 0)]
          [] tool_name = "list_tickets" ->
               IF bad THEN [raises |-> TRUE, value |-> NoneHR]
               ELSE [raises |-> FALSE, value |-> ListHR("tickets", TicketCount(cid))]
          [] OTHER -> [raises |-> TRUE, value |-> NoneHR]

-----------------------------------------------------------------------------
(* MCP tool invocation (agent_client.py).  run is what happens to the tool *)
(* host: spawn_fail (the process cannot be started), init_fail (the        *)
(* session's initialize fails), call_fail (the tool call fails),           *)
(* no_content (the reply has no content block), ok (the tool function ran  *)
(* and its text came back).                                                *)

ToolRuns == {"spawn_fail", "no_content", "ok"}

\* str(e) of the exception the stdio client, session.initialize() or
\* session.call_tool() raises
ToolHostError(run) ==
    CASE run = "init_fail" -> "mcp: initialize failed"
      [] run = "call_fail" -> "mcp: request timed out"
      [] OTHER -> "mcp: connection closed"

invoke_tool(tool_name, arguments, run) ==
    CASE run \in {"spawn_fail", "init_fail", "call_fail"} ->
           HR("dict", "error", Absent, ToolHostError(run), Absent, 0)
      [] run = "no_content" ->
           HR("dict", "error", "No content returned from tool", Absent, Absent, 0)
      [] OTHER ->
           LET r == ToolFunction(tool_name, arguments)
           IN  IF r.raises
               THEN TextHR("Error executing tool " \o tool_name)   \* json.loads fails: raw text
               ELSE r.value

-----------------------------------------------------------------------------
(* Customer Data Agent (customer_data_agent.py) *)

Returned(v) == [raised |-> FALSE, error |-> "", value |-> v]

Raised(e) == [raised |-> TRUE, error |-> e, value |-> NoneHR]

normalize_payload(payload) ==
    IF payload.d.customer_id # Absent
    THEN Args(payload.d.customer_id, Absent, Absent)
    ELSE Args(payload.d.customer_id, payload.d.status, payload.d.data)

handle_customer_intent(intent, payload, run) ==
    CASE intent = "get_customer_info" ->
           Returned(invoke_tool("get_customer", normalize_payload(payload), run))
      [] intent = "list_customers" ->
           Returned(invoke_tool("list_customers",
                                Args(payload.d.customer_id, payload.d.status, payload.d.data), run))
      [] intent = "update_email" ->
           IF payload.d.customer_id = Absent
           THEN Raised("'customer_id'")                         \* KeyError
           ELSE Returned(invoke_tool("update_customer",
                                     Args(payload.d.customer_id, Absent,
                                          Get(payload.d.updates, EmptyUpdates)), run))
      [] intent = "update_customer" ->
           Returned(invoke_tool("update_customer",
                                Args(payload.d.customer_id, payload.d.status, payload.d.data), run))
      [] intent = "get_customer_history" ->
           Returned(invoke_tool("get_customer_history", normalize_payload(payload), run))
      [] OTHER ->
           Returned(HR("dict", "error", "Unknown intent: " \o Str(intent), Absent, Absent, 0))

\* a normalisation that wraps nothing: a bare name is iterated as it is
NormalizeIntentsListOnly(intent) ==
    CASE intent.kind = "list" -> intent.names
      [] OTHER -> <<Null>>

\* `if not isinstance(intents, list): intents = [intents]`
NormalizeIntents(intent) ==
    CASE intent.kind = "list" -> intent.names
      [] intent.kind = "name" -> intent.names
      [] OTHER -> <<Null>>

\* a gather that hands the results back last task first
GatherReversed(outcomes) ==
    IF \E i \in DOMAIN outcomes : outcomes[i].raised
    THEN [raised |-> TRUE,
          error |-> outcomes[CHOOSE i \in DOMAIN outcomes :
                       /\ outcomes[i].raised
                       /\ \A j \in DOMAIN outcomes : outcomes[j].raised => i <= j].error,
          value |-> NoneHR]
    ELSE [raised |-> FALSE, error |-> "",
          value |-> [i \in DOMAIN outcomes |-> outcomes[Len(outcomes) + 1 - i].value]]

\* a gather that swallows exceptions and hands back what there is
GatherKeepingResults(outcomes) ==
    [raised |-> FALSE, error |-> "", value |-> [i \in DOMAIN outcomes |-> outcomes[i].value]]

\* asyncio.gather(*tasks, return_exceptions=False) over the handler outcomes
Gather(outcomes) ==
    IF \E i \in DOMAIN outcomes : outcomes[i].raised
    THEN Raised(outcomes[CHOOSE i \in DOMAIN outcomes :
                    /\ outcomes[i].raised
                    /\ \A j \in DOMAIN outcomes : outcomes[j].raised => i <= j].error)
    ELSE [raised |-> FALSE, error |-> "", value |-> [i \in DOMAIN outcomes |-> outcomes[i].value]]

\* POST /a2a of the customer data agent; runs[i] is the tool host's run for intent i
handle_a2a(msg, runs, n) ==
    LET chk == check_message_schema(msg)
        intents == NormalizeIntents(msg.intent)
        got == Gather([i \in DOMAIN intents |->
                          handle_customer_intent(intents[i], msg.payload, runs[i])])
    IN  IF ~chk.ok THEN generate_error_response(msg, chk.error, n)
        ELSE IF got.raised THEN generate_error_response(msg, got.error, n)
        ELSE create_a2a_message("customer_data_agent", msg.from, IntentList(intents),
                                ListPayload(got.value), "response", msg.correlation_id, n)

-----------------------------------------------------------------------------
(* Support Agent (support_agent.py) *)

\* what the phrasing query_llm call returns to the handlers of the /query and
\* /a2a machines: no usable result, or a text; "raises" is an exception leaving
\* the call, which the oracle machine follows
Phrasings == {"none", "text"}

generate_polite_response(action_taken, llm) ==
    IF llm = "none" THEN "Action processed: " \o action_taken
    ELSE "<llm phrasing>"

\* "Add the LLM voice to the response"
WithAnswer(response_data, action_description, llm) ==
    LET llm_message == generate_polite_response(action_description, llm)
    IN  CASE response_data.kind = "list" ->
               [HR("dict", Absent, "<list>", Absent, response_data.rec, response_data.len)
                  EXCEPT !.answer_text = llm_message]
          [] response_data.kind = "dict" -> [response_data EXCEPT !.answer_text = llm_message]
          [] OTHER -> response_data

OkHR(rec) == HR("dict", "ok", Absent, Absent, rec, 0)

\* the handler's last step: an exception of query_llm leaves
\* generate_polite_response and the handler
Voiced(response_data, action_description, llm) ==
    IF llm = "raises" THEN Raised("'NoneType' object has no attribute 'strip'")
    ELSE Returned(WithAnswer(response_data, action_description, llm))

handle_support_intent(intent, payload, run, llm) ==
    LET customer_id == GetNone(payload.d.customer_id)
        text == payload.d.text
        entities == IF payload.d.entities.k = "absent" THEN NoEntities ELSE payload.d.entities
    IN  CASE intent \in {"upgrade_request", "upgrade_account"} ->
               Voiced(OkHR(Absent), "Upgrade processed.", llm)
          [] intent \in {"show_ticket_status", "show_ticket_history",
                         "get_active_customers_with_open_tickets", "get_customer_history"} ->
               IF ~Truthy(customer_id)
               THEN Returned(HR("dict", "error", Absent, "Missing customer_id", Absent, 0))
               ELSE LET tickets == invoke_tool("list_tickets", Args(customer_id, Absent, Absent), run)
                    IN  Voiced(tickets,
                               IF tickets.kind = "list" /\ tickets.len > 0
                               THEN "Found " \o ToString(tickets.len) \o " tickets."
                               ELSE "No tickets found.", llm)
          [] intent \in {"escalate_issue", "billing_issues", "angry_customer"} ->
               IF entities.k # "dict"
               THEN Raised("'NoneType' object has no attribute 'get'")
               ELSE LET ticket == invoke_tool("create_ticket", Args(customer_id, Absent, Absent), run)
                    IN  IF ticket.kind # "dict"
                        THEN Raised("'str' object has no attribute 'get'")
                        ELSE Voiced(ticket,
                                 "Escalation Ticket #" \o Get(ticket.rec, "unknown") \o " created.",
                                 llm)
          [] intent = "refund_request" ->
               Voiced(OkHR("refund_id:REF-998877"), "Refund initiated successfully.", llm)
          [] intent = "cancel_subscription" ->
               Voiced(OkHR(Absent), "Subscription cancelled.", llm)
          [] intent = "support_request" ->
               Voiced(OkHR(Absent), "General inquiry logged.", llm)
          [] OTHER ->
               Returned(HR("dict", "error", Absent, "Unknown intent: " \o Str(intent), Absent, 0))

\* POST /a2a of the support agent
support_a2a_handler(msg, runs, llms, n) ==
    LET chk == check_message_schema(msg)
        intents == NormalizeIntents(msg.intent)
        got == Gather([i \in DOMAIN intents |->
                          handle_support_intent(intents[i], msg.payload, runs[i], llms[i])])
    IN  IF ~chk.ok THEN generate_error_response(msg, chk.error, n)
        ELSE IF got.raised THEN generate_error_response(msg, got.error, n)
        ELSE create_a2a_message("support_agent", msg.from, IntentList(intents),
                                ListPayload(got.value), "response", msg.correlation_id, n)

-----------------------------------------------------------------------------
(* Router Agent: A2A interface (router_agent.py) *)

OkPayload == DictPayload([NoKeys EXCEPT !.status = "ok"])

\* the handler's exception when msg lacks a key it subscripts: no envelope, HTTP 500
router_a2a_raises(msg) ==
    \/ msg.from = Absent
    \/ msg.intent.kind = "absent"
    \/ msg.correlation_id = Absent

router_a2a_handler(msg, n) ==
    create_a2a_message("router", msg.from, msg.intent, OkPayload, "response",
                       msg.correlation_id, n)

-----------------------------------------------------------------------------
(* Router Agent: 1. the "brain" (router_agent.py) *)

\* `key in word`, for a lower-cased word of the model's texts
Contains(word, key) ==
    \/ word = key
    \/ <<word, key>> \in {<<"new@email.com", "email">>, <<"old@email.com", "email">>,
                          <<"tickets", "ticket">>,
                          <<"refunded", "refund">>, <<"cancelled", "cancel">>}

\* `key in text.lower()` for a one-word key
InText(words, key) == \E i \in DOMAIN words : Contains(Lower(words[i]), key)

\* `"money back" in text_lower`
MoneyBack(words) ==
    \E i \in DOMAIN words :
        /\ i + 1 \in DOMAIN words
        /\ Lower(words[i]) = "money"
        /\ Lower(words[i + 1]) = "back"

\* a safety net that looks for "cancel" first
FallbackIntentCancelFirst(words) ==
    IF InText(words, "cancel") THEN "cancel_subscription"
    ELSE IF InText(words, "refund") \/ MoneyBack(words) THEN "refund_request"
    ELSE IF InText(words, "active") /\ InText(words, "customers") THEN "list_customers"
    ELSE IF InText(words, "email") /\ InText(words, "update") THEN "update_email"
    ELSE IF InText(words, "history") THEN "get_customer_history"
    ELSE IF InText(words, "ticket") THEN "show_ticket_status"
    ELSE "support_request"

\* the regex safety net
FallbackIntent(words) ==
    IF InText(words, "refund") \/ MoneyBack(words) THEN "refund_request"
    ELSE IF InText(words, "cancel") THEN "cancel_subscription"
    ELSE IF InText(words, "active") /\ InText(words, "customers") THEN "list_customers"
    ELSE IF InText(words, "email") /\ InText(words, "update") THEN "update_email"
    ELSE IF InText(words, "history") THEN "get_customer_history"
    ELSE IF InText(words, "ticket") THEN "show_ticket_status"
    ELSE "support_request"

\* what query_llm(..., json_mode=True) returns: None, or the parsed JSON object
LLMNone == [k |-> "none", intents |-> AbsentIntent, entities |-> AbsentEntities]

LLMDict(intents, entities) == [k |-> "dict", intents |-> intents, entities |-> entities]

\* a classifier that takes the fallback whenever the oracle named no intent
classify_intents_with_llm_never_empty(text, llm) ==
    IF llm.k = "dict" /\ llm.intents.kind = "list" /\ llm.intents.names # <<>>
    THEN [intents |-> llm.intents,
          entities |-> IF llm.entities.k = "absent" THEN NoEntities ELSE llm.entities]
    ELSE [intents |-> IntentList(<<FallbackIntent(text.words)>>), entities |-> NoEntities]

\* returns (intents, entities)
classify_intents_with_llm(text, llm) ==
    IF llm.k = "dict"
    THEN [intents |-> IF llm.intents.kind = "absent" THEN IntentList(<<>>) ELSE llm.intents,
          entities |-> IF llm.entities.k = "absent" THEN NoEntities ELSE llm.entities]
    ELSE [intents |-> IntentList(<<FallbackIntent(text.words)>>), entities |-> NoEntities]

-----------------------------------------------------------------------------
(* Router Agent: 2. task routing logic *)

SUPPORT_AGENT_URL == "http://127.0.0.1:8102"

DATA_AGENT_URL_swapped == "http://127.0.0.1:8102"

DATA_AGENT_URL == "http://127.0.0.1:8101"

\* the words of the model's texts that r'[\w\.-]+@[\w\.-]+' matches
EmailShaped == {"new@email.com", "old@email.com", "a@b.org"}

\* the last match instead of the first
EmailInLast(words) ==
    LET hits == {i \in DOMAIN words : words[i] \in EmailShaped}
    IN  IF hits = {} THEN Null
        ELSE words[CHOOSE i \in hits : \A j \in hits : i >= j]

\* re.search(r'[\w\.-]+@[\w\.-]+', text): the first match, Null when there is none
EmailIn(words) ==
    LET hits == {i \in DOMAIN words : words[i] \in EmailShaped}
    IN  IF hits = {} THEN Null
        ELSE words[CHOOSE i \in hits : \A j \in hits : i <= j]

TaskNeverEscalates(target_url, msg, intent, requires_escalation) ==
    [raised |-> FALSE, target_url |-> target_url, msg |-> msg, intent |-> intent,
     requires_escalation |-> FALSE]

Task(target_url, msg, intent, requires_escalation) ==
    [raised |-> FALSE, target_url |-> target_url, msg |-> msg, intent |-> intent,
     requires_escalation |-> requires_escalation]

\* an exception leaves build_agent_task
TaskRaised == [raised |-> TRUE]

build_agent_task(intent, customer_id, text, entities, n) ==
    IF intent \in {"get_customer_info", "get_customer_history", "update_email", "list_customers"}
    THEN
        LET base == [NoKeys EXCEPT !.customer_id = customer_id]
        IN  CASE intent = "list_customers" ->
                   IF entities.k # "dict" THEN TaskRaised      \* entities.get: AttributeError
                   ELSE LET s0 == GetNone(entities.status_filter)
                            s1 == IF ~Truthy(s0) /\ InText(text.words, "active")
                                  THEN "active" ELSE s0
                            s2 == IF Truthy(s1) THEN Lower(s1) ELSE s1
                        IN  Task(DATA_AGENT_URL,
                                 create_a2a_message("router", "customer_data_agent",
                                     IntentName(intent),
                                     DictPayload([base EXCEPT !.status = s2]),
                                     "request", Null, n),
                                 intent, FALSE)
              [] intent = "update_email" ->
                   IF entities.k # "dict" THEN TaskRaised
                   ELSE LET e0 == GetNone(entities.email)
                            new_email == IF ~Truthy(e0) THEN EmailIn(text.words) ELSE e0
                        IN  Task(DATA_AGENT_URL,
                                 create_a2a_message("router", "customer_data_agent",
                                     IntentName(intent),
                                     DictPayload([base EXCEPT !.updates =
                                         IF Truthy(new_email) THEN new_email ELSE EmptyUpdates]),
                                     "request", Null, n),
                                 intent, TRUE)
              [] OTHER ->
                   Task(DATA_AGENT_URL,
                        create_a2a_message("router", "customer_data_agent", IntentName(intent),
                                           DictPayload(base), "request", Null, n),
                        intent, FALSE)
    ELSE
        Task(SUPPORT_AGENT_URL,
             create_a2a_message("router", "support_agent", IntentName(intent),
                 DictPayload([NoKeys EXCEPT !.customer_id = customer_id, !.text = text,
                                            !.entities = entities]),
                 "request", Null, n),
             intent,
             intent \in {"refund_request", "cancel_subscription", "upgrade_request",
                         "escalate_issue"})

-----------------------------------------------------------------------------
(* Agent Connector: A2A communication (agent_client.py) *)

AbsentEnvelope ==
    [message_id |-> Absent, from |-> Absent, to |-> Absent, type |-> Absent,
     intent |-> AbsentIntent, payload |-> AbsentPayload, correlation_id |-> Absent,
     timestamp |-> Absent]

\* A value of results_raw.  k: pending (the task has not completed), dict, exception.
\* A dict holds the envelope keys (env) and the keys status, error, data.
Pending == [k |-> "pending", env |-> AbsentEnvelope, status |-> Absent, error |-> Absent,
            data |-> Absent]

RawEnvelope(env) == [k |-> "dict", env |-> env, status |-> Absent, error |-> Absent,
                     data |-> Absent]

RawError(error) == [k |-> "dict", env |-> AbsentEnvelope, status |-> "error", error |-> error,
                    data |-> Absent]

RawException(text) == [k |-> "exception", env |-> AbsentEnvelope, status |-> Absent,
                       error |-> text, data |-> Absent]

\* what happens to the POST: no connection / timeout, a non-200 status, a 200
NetOutcomes == {"unreachable", "http_error", "ok"}

\* a send_message whose try block does not cover the validation
send_message_unguarded(target_url, message, net, reply) ==
    LET chk == check_message_schema(message)
    IN  IF ~chk.ok THEN RawException(chk.error)
        ELSE CASE net = "ok" -> RawEnvelope(reply)
               [] net = "http_error" -> RawError("HTTP 500: Internal Server Error")
               [] net = "bad_body" -> RawError("Expecting value: line 1 column 1 (char 0)")
               [] net = "timeout" -> RawError("Read timed out. (read timeout=5)")
               [] OTHER -> RawError("Connection refused")

\* reply is the JSON the peer answers with when the status is 200; bad_body is a
\* 200 whose body resp.json() cannot read, timeout is requests' timeout
send_message(target_url, message, net, reply) ==
    LET chk == check_message_schema(message)
    IN  IF ~chk.ok THEN RawError(chk.error)
        ELSE CASE net = "ok" -> RawEnvelope(reply)
               [] net = "http_error" -> RawError("HTTP 500: Internal Server Error")
               [] net = "bad_body" -> RawError("Expecting value: line 1 column 1 (char 0)")
               [] net = "timeout" -> RawError("Read timed out. (read timeout=5)")
               [] OTHER -> RawError("Connection refused")

\* whether send_message issues the POST
Posts(message) == check_message_schema(message).ok

\* a connector that repeats a failed request until max_attempts requests are made
RequestsUpToMaxAttempts(message, net, max_attempts) ==
    IF ~check_message_schema(message).ok THEN 0
    ELSE IF net = "ok" THEN 1
    ELSE max_attempts

\* the number of requests.post calls of one send_message of a connector built
\* with max_attempts: the one call in the try block, which max_attempts does not
\* enter, reached when the validation before it has not raised
Requests(message, net, max_attempts) == IF Posts(message) THEN 1 ELSE 0

-----------------------------------------------------------------------------
(* Router Agent: 3. main query endpoint *)

\* data of a ResultEntry: None, a text, an element of a payload list, or a payload
NoData == [k |-> "none", text |-> Absent, item |-> NoneHR, payload |-> AbsentPayload]

TextData(t) == [NoData EXCEPT !.k = "text", !.text = t]

ItemData(hr) == [NoData EXCEPT !.k = "item", !.item = hr]

PayloadData(p) == [NoData EXCEPT !.k = "payload", !.payload = p]

ResultEntry(meta, status, data) ==
    [intent |-> meta.intent, status |-> status, data |-> data,
     requires_escalation |-> meta.requires_escalation]

\* an unwrapping that reads the status off the reply and not off its first element
UnwrapStatusOfReply(meta, res) ==
    CASE res.k = "exception" ->
           [intent |-> meta.intent, status |-> "error",
            data |-> [k |-> "text", text |-> res.error, item |-> NoneHR,
                      payload |-> AbsentPayload],
            requires_escalation |-> meta.requires_escalation]
      [] res.k = "dict" /\ res.env.payload.kind # "absent" ->
           [intent |-> meta.intent,
            status |-> IF res.status = Absent THEN "ok" ELSE res.status,
            data |-> IF res.env.payload.kind = "list" /\ Len(res.env.payload.items) > 0
                     THEN [k |-> "item", text |-> Absent, item |-> res.env.payload.items[1],
                           payload |-> AbsentPayload]
                     ELSE [k |-> "payload", text |-> Absent, item |-> NoneHR,
                           payload |-> res.env.payload],
            requires_escalation |-> meta.requires_escalation]
      [] OTHER ->
           [intent |-> meta.intent,
            status |-> IF res.status = Absent THEN "unknown" ELSE res.status,
            data |-> IF res.data \notin {Absent, Null, "", "0"}
                     THEN [k |-> "text", text |-> res.data, item |-> NoneHR,
                           payload |-> AbsentPayload]
                     ELSE IF res.error = Absent
                     THEN [k |-> "none", text |-> Absent, item |-> NoneHR,
                           payload |-> AbsentPayload]
                     ELSE [k |-> "text", text |-> res.error, item |-> NoneHR,
                           payload |-> AbsentPayload],
            requires_escalation |-> meta.requires_escalation]

\* D. aggregate: one (meta, res) pair of the zip
Unwrap(meta, res) ==
    CASE res.k = "exception" -> ResultEntry(meta, "error", TextData(res.error))
      [] res.k = "dict" /\ res.env.payload.kind # "absent" ->
           LET payload_list == res.env.payload
           IN  IF payload_list.kind = "list" /\ Len(payload_list.items) > 0
               THEN LET data == payload_list.items[1]
                    IN  ResultEntry(meta,
                                    IF data.kind = "dict" THEN Get(data.status, "ok") ELSE "ok",
                                    ItemData(data))
               ELSE ResultEntry(meta, "ok", PayloadData(payload_list))
      [] res.k = "dict" ->
           ResultEntry(meta, Get(res.status, "unknown"),
                       IF Truthy(GetNone(res.data)) THEN TextData(res.data)
                       ELSE IF res.error = Absent THEN NoData
                       ELSE TextData(res.error))
      [] OTHER -> ResultEntry(meta, "error", NoData)

GatherSlotByCompletion(k, done) == Cardinality(done) + 1

\* asyncio.gather: the slot of results_raw that receives the result of task k,
\* done being the tasks completed before it
GatherSlot(k, done) == k

NoResponse == [status |-> Absent, message |-> Absent, results |-> <<>>]

-----------------------------------------------------------------------------
(* Inputs *)

MaxIntents == 2

Texts ==
    {Text(<<"Update", "my", "email", "to", "new@email.com">>),
     Text(<<"Show", "Active", "customers">>)}

BodyTexts == Texts \cup {AbsentText, NullText, Text(<<>>)}

BodyCustomerIds == {Absent, Null, "0", "1", "12345"}

Bodies == [text : BodyTexts, customer_id : BodyCustomerIds]

ModelIntents ==
    {"get_customer_info", "update_email", "list_customers", "refund_request",
     "escalate_issue", "make_coffee"}

\* the tool host runs the /query model draws from
QueryToolRuns == {"spawn_fail", "ok"}

\* the intent lists the oracle may answer with: up to MaxIntents distinct intents
IntentSeqs ==
    UNION {{s \in [1..n -> ModelIntents] : \A i, j \in 1..n : s[i] = s[j] => i = j} :
             n \in 0..MaxIntents}

EntitySets ==
    {NoEntities, NullEntities,
     [k |-> "dict", email |-> "a@b.org", status_filter |-> "Active", reason |-> "billing"]}

LLMResults ==
    {LLMNone, LLMDict(NullIntent, NoEntities)}
    \cup {LLMDict(IntentList(s), e) : s \in IntentSeqs, e \in EntitySets}

-----------------------------------------------------------------------------
(* The /query handler *)

\* nothing has been POSTed to an /a2a endpoint
\* runs, llms: the tool host's run and the phrasing outcome of each handler
NoInbox == [agent |-> Absent, msg |-> AbsentEnvelope, runs |-> <<>>, llms |-> <<>>]

\* k: none, envelope (the reply), http_500 (an exception left the handler)
\* calls: the intents a handler coroutine was created for
NoOutbox == [k |-> "none", env |-> AbsentEnvelope, calls |-> <<>>]

\* op: none, validate, mirror, construct; chk = check_message_schema(msg),
\* out = generate_error_response(msg, text)
NoChecked == [op |-> "none", msg |-> AbsentEnvelope, text |-> "",
              chk |-> [ok |-> TRUE, missing |-> <<>>, error |-> ""], out |-> AbsentEnvelope]

\* a loop that hands an empty intent list to the support specialist
BuildTasksOrDefault(intents, customer_id, text, entities, n) ==
    IF intents = <<>>
    THEN <<build_agent_task("support_request", customer_id, text, entities, n)>>
    ELSE [i \in 1..Len(intents) |->
             build_agent_task(intents[i], customer_id, text, entities, n + 2 * (i - 1))]

\* no function has been applied, no oracle call made
NoSent == [op |-> "none", message |-> AbsentEnvelope, net |-> "", reply |-> AbsentEnvelope,
           res |-> Pending, max_attempts |-> 0, requests |-> 0]

NoInvoked == [op |-> "none", tool_name |-> "", arguments |-> Args(Absent, Absent, Absent),
              run |-> "", res |-> NoneHR]

NoEntry == ResultEntry([intent |-> "", requires_escalation |-> FALSE], Absent, NoData)

NoRouted ==
    [op |-> "none", intent |-> "", customer_id |-> Absent, text |-> AbsentText,
     entities |-> AbsentEntities, raised |-> FALSE, target_url |-> "", msg |-> AbsentEnvelope,
     requires_escalation |-> FALSE, net |-> "", run |-> "", res |-> Pending, entry |-> NoEntry]

NoClassification == [intents |-> AbsentIntent, entities |-> AbsentEntities]

NoOracle ==
    [pc |-> "idle", json_mode |-> FALSE, text |-> AbsentText, attempt |-> 0, answers |-> <<>>,
     sleeps |-> <<>>, result |-> "pending", cls |-> NoClassification,
     voiced |-> [raised |-> FALSE, error |-> "", value |-> NoneHR], reply |-> AbsentEnvelope]

\* the invoke_tool calls of one process that may be in progress at once
MaxCalls == 2

\* an invoke_tool call.  pc: idle, spawned (inside stdio_client), session (inside
\* ClientSession), initialized, leave_session and leave_host (the two context
\* managers are left, by return or by exception), returned; host: the process it
\* spawned, 0 for none; run: the way the call went
NoCall == [pc |-> "idle", tool_name |-> "", arguments |-> Args(Absent, Absent, Absent),
           host |-> 0, run |-> "", res |-> NoneHR]

\* no invoke_tool call yet; procs[h] is the h-th tool host process spawned
NoHosts == [calls |-> [i \in 1..MaxCalls |-> NoCall], procs |-> <<>>]

\* the requests one process may serve at once
MaxRequests == 3

\* a request handler coroutine.  pc: idle, classifying, gathering, tool, phrasing,
\* done; call: the outbound call it has pending (none, oracle, peer, tool); where:
\* loop (the call runs in the handler's own code, on the event loop thread),
\* worker (on a thread of the executor), awaited (asynchronous I/O), ready (the
\* call has ended and the handler waits for the event loop to resume it), none
NoHandler == [pc |-> "idle", call |-> "none", where |-> "none"]

\* agent: the process (none until its first request); running: the handler whose
\* synchronous code holds the event loop thread, 0 when the loop is free
NoLoop == [agent |-> "none", running |-> 0,
           handlers |-> [h \in 1..MaxRequests |-> NoHandler]]

RECURSIVE BuildTasks(_, _, _, _, _)
\* B. build tasks: the loop over intents; n counts the uuids drawn
BuildTasks(intents, customer_id, text, entities, n) ==
    IF intents = <<>> THEN <<>>
    ELSE <<build_agent_task(Head(intents), customer_id, text, entities, n)>>
         \o BuildTasks(Tail(intents), customer_id, text, entities, n + 2)

Init ==
    /\ pc = "idle"
    /\ body = [text |-> AbsentText, customer_id |-> Absent]
    /\ classified = [intents |-> IntentList(<<>>), entities |-> NoEntities]
    /\ tasks = <<>>
    /\ task_metadata = <<>>
    /\ results_raw = <<>>
    /\ returned = <<>>
    /\ response = NoResponse
    /\ completed = {}
    /\ overtaken = FALSE
    /\ posted = {}
    /\ llm_calls = 0
    /\ uuid_ctr = 0
    /\ inbox = NoInbox
    /\ outbox = NoOutbox
    /\ checked = NoChecked
    /\ sent = NoSent
    /\ invoked = NoInvoked
    /\ routed = NoRouted
    /\ oracle = NoOracle
    /\ hosts = NoHosts
    /\ loop = NoLoop

\* POST /query with a body the precondition rejects
QueryReject(b) ==
    /\ pc = "idle"
    /\ ~TextTruthy(b.text) \/ ~Truthy(b.customer_id)
    /\ body' = b
    /\ pc' = "rejected"
    /\ response' = [status |-> "error", message |-> "Missing 'text' or 'customer_id'",
                    results |-> <<>>]
    /\ UNCHANGED <<classified, tasks, task_metadata, results_raw, returned, completed,
                   overtaken, posted, llm_calls, uuid_ctr, a2aVars, callVars, procVars>>

\* POST /query, A. classify and B. build tasks, when an exception leaves the handler
QueryCrash(b, llm) ==
    LET cls == classify_intents_with_llm(b.text, llm)
    IN  /\ pc = "idle"
        /\ TextTruthy(b.text) /\ Truthy(b.customer_id)
        /\ \/ cls.intents.kind # "list"                       \* `for intent in None`
           \/ /\ cls.intents.kind = "list"
              /\ \E i \in DOMAIN cls.intents.names :
                    build_agent_task(cls.intents.names[i], b.customer_id, b.text,
                                     cls.entities, 0).raised
        /\ body' = b
        /\ classified' = cls
        /\ llm_calls' = llm_calls + 1
        /\ pc' = "crashed"
        /\ response' = [NoResponse EXCEPT !.status = "HTTP 500"]
        /\ UNCHANGED <<tasks, task_metadata, results_raw, returned, completed, overtaken,
                       posted, uuid_ctr, a2aVars, callVars, procVars>>

\* POST /query, A. classify and B. build tasks, up to the gather
QueryDispatch(b, llm) ==
    LET cls == classify_intents_with_llm(b.text, llm)
        built == BuildTasks(cls.intents.names, b.customer_id, b.text, cls.entities, uuid_ctr)
    IN  /\ pc = "idle"
        /\ TextTruthy(b.text) /\ Truthy(b.customer_id)
        /\ cls.intents.kind = "list"
        /\ \A i \in DOMAIN built : ~built[i].raised
        /\ body' = b
        /\ classified' = cls
        /\ llm_calls' = llm_calls + 1
        /\ tasks' = [i \in DOMAIN built |->
                        [target_url |-> built[i].target_url, msg |-> built[i].msg]]
        /\ task_metadata' = [i \in DOMAIN built |->
                                [intent |-> built[i].intent,
                                 requires_escalation |-> built[i].requires_escalation]]
        /\ results_raw' = [i \in DOMAIN built |-> Pending]
        /\ returned' = [i \in DOMAIN built |-> Pending]
        /\ uuid_ctr' = uuid_ctr + 2 * Len(built)
        /\ pc' = "gathering"
        /\ UNCHANGED <<response, completed, overtaken, posted, a2aVars, callVars, procVars>>

\* the peer at target_url answers the POST
PeerReply(target_url, msg, runs, llms, n) ==
    IF target_url = DATA_AGENT_URL THEN handle_a2a(msg, runs, n)
    ELSE support_a2a_handler(msg, runs, llms, n)

\* C. execute: the worker thread of task k runs agent.send_message to its end.
\* The peer draws its uuids from a block of its own, after the router's.
SendMessage(k, net, runs, llms) ==
    LET t == tasks[k]
        reply == PeerReply(t.target_url, t.msg, runs, llms, uuid_ctr + 2 * (k - 1))
        res == send_message(t.target_url, t.msg, net, reply)
    IN  /\ pc = "gathering"
        /\ k \in DOMAIN tasks
        /\ k \notin completed
        /\ returned' = [returned EXCEPT ![k] = res]
        /\ results_raw' = [results_raw EXCEPT ![GatherSlot(k, completed)] = res]
        /\ completed' = completed \cup {k}
        /\ overtaken' = (overtaken \/ \E j \in DOMAIN tasks : j < k /\ j \notin completed)
        /\ posted' = IF Posts(t.msg) THEN posted \cup {t.msg} ELSE posted
        /\ UNCHANGED <<pc, body, classified, tasks, task_metadata, response, llm_calls,
                       uuid_ctr, a2aVars, callVars, procVars>>

\* a gather that ends at the first call that has failed
AggregateFailFast ==
    /\ pc = "gathering"
    /\ \/ completed = DOMAIN tasks
       \/ \E k \in completed : returned[k].status = "error"
    /\ response' = [status |-> "ok", message |-> Absent,
                    results |-> [i \in DOMAIN task_metadata |->
                                    Unwrap(task_metadata[i], results_raw[i])]]
    /\ pc' = "done"
    /\ UNCHANGED <<body, classified, tasks, task_metadata, results_raw, returned, completed,
                   overtaken, posted, llm_calls, uuid_ctr, a2aVars, callVars, procVars>>

\* a gather that returns only when every call has brought a reply
AggregateWhenAllReplied ==
    /\ pc = "gathering"
    /\ completed = DOMAIN tasks
    /\ \A k \in DOMAIN tasks : returned[k].status # "error"
    /\ response' = [status |-> "ok", message |-> Absent,
                    results |-> [i \in DOMAIN task_metadata |->
                                    Unwrap(task_metadata[i], results_raw[i])]]
    /\ pc' = "done"
    /\ UNCHANGED <<body, classified, tasks, task_metadata, results_raw, returned, completed,
                   overtaken, posted, llm_calls, uuid_ctr, a2aVars, callVars, procVars>>

\* D. aggregate results, once the gather has every result
Aggregate ==
    /\ pc = "gathering"
    /\ completed = DOMAIN tasks
    /\ response' = [status |-> "ok", message |-> Absent,
                    results |-> [i \in DOMAIN task_metadata |->
                                    Unwrap(task_metadata[i], results_raw[i])]]
    /\ pc' = "done"
    /\ UNCHANGED <<body, classified, tasks, task_metadata, results_raw, returned, completed,
                   overtaken, posted, llm_calls, uuid_ctr, a2aVars, callVars, procVars>>

Next ==
    \/ pc = "idle" /\ \E b \in Bodies : QueryReject(b)
    \/ pc = "idle" /\ \E b \in Bodies, llm \in LLMResults : QueryCrash(b, llm)
    \/ pc = "idle" /\ \E b \in Bodies, llm \in LLMResults : QueryDispatch(b, llm)
    \/ pc = "gathering" /\ \E k \in DOMAIN tasks \ completed :
          \E net \in NetOutcomes \ {"ok"} :
              SendMessage(k, net, [i \in 1..1 |-> "ok"], [i \in 1..1 |-> "none"])
    \/ pc = "gathering" /\ \E k \in DOMAIN tasks \ completed :
          \E runs \in [1..1 -> QueryToolRuns], llms \in [1..1 -> Phrasings] :
              SendMessage(k, "ok", runs, llms)
    \/ Aggregate

Spec == Init /\ [][Next]_vars

\* the worker thread of some pending task runs its send_message to the end: the
\* peer answers, or the request fails or times out after self.timeout
PeerCallEnds ==
    \E k \in DOMAIN tasks \ completed :
        \/ \E net \in NetOutcomes \ {"ok"} :
              SendMessage(k, net, [i \in 1..1 |-> "ok"], [i \in 1..1 |-> "none"])
        \/ \E runs \in [1..1 -> QueryToolRuns], llms \in [1..1 -> Phrasings] :
              SendMessage(k, "ok", runs, llms)

\* the /query machine when every started peer call ends and the event loop resumes
\* the handler once the gather is complete
SpecLive == Init /\ [][Next]_vars /\ WF_vars(PeerCallEnds) /\ WF_vars(Aggregate)

-----------------------------------------------------------------------------
(* The /a2a endpoints and the envelope functions, for envelopes from any   *)
(* caller                                                                  *)

A2AIntents == {"get_customer_info", "update_email", "escalate_issue", "refund_request"}

A2AIntentValues ==
    {AbsentIntent, NullIntent}
    \cup {IntentName(i) : i \in A2AIntents}
    \cup {IntentList(s) : s \in UNION {{q \in [1..n -> A2AIntents] :
                                           \A i, j \in 1..n : q[i] = q[j] => i = j} :
                                        n \in 0..MaxIntents}}

A2APayloads ==
    {AbsentPayload, EmptyDict,
     DictPayload([NoKeys EXCEPT !.customer_id = "1", !.updates = "a@b.org",
                                !.text = Text(<<"help">>), !.entities = NoEntities]),
     DictPayload([NoKeys EXCEPT !.customer_id = "12345", !.text = Text(<<"help">>),
                                !.entities = NullEntities])}

\* the envelopes POSTed to the agents
Received ==
    [message_id : {"m-1"}, from : {Absent, Null, "router"},
     to : {"customer_data_agent", "support_agent"},
     type : {"request"}, intent : A2AIntentValues, payload : A2APayloads,
     correlation_id : {Absent, Null, "", "corr-1"}, timestamp : {UtcNow}]

\* the dicts the envelope functions are applied to
AnyEnvelopes ==
    [message_id : {Absent, "m-1"}, from : {Absent, Null, "router"},
     to : {Absent, Null, "support_agent"}, type : {Absent, "request"},
     intent : {AbsentIntent, NullIntent, IntentName("refund_request"),
               IntentList(<<"update_email", "get_customer_history">>)},
     payload : {AbsentPayload, EmptyDict},
     correlation_id : {Absent, Null, "", "corr-1"}, timestamp : {Absent, UtcNow}]

ErrorTexts == {"", "boom", "'customer_id'"}

Senders == {"router", "support_agent"}

CorrIds == {Null, "", "corr-1"}

\* no /a2a request and no function application has been modelled yet
A2AIdle == inbox = NoInbox /\ checked = NoChecked

\* the handler coroutines a specialist creates for an envelope: none when the
\* validation raises, else one per intent of the normalised list
HandlerCalls(msg) ==
    IF check_message_schema(msg).ok THEN NormalizeIntents(msg.intent) ELSE <<>>

\* POST /a2a of the customer data agent
PostDataAgent(msg, runs) ==
    /\ A2AIdle
    /\ inbox' = [agent |-> "customer_data_agent", msg |-> msg, runs |-> runs, llms |-> <<>>]
    /\ outbox' = [k |-> "envelope", env |-> handle_a2a(msg, runs, 0),
                  calls |-> HandlerCalls(msg)]
    /\ UNCHANGED <<queryVars, callVars, uuid_ctr, checked, procVars>>

\* POST /a2a of the support agent
PostSupportAgent(msg, runs, llms) ==
    /\ A2AIdle
    /\ inbox' = [agent |-> "support_agent", msg |-> msg, runs |-> runs, llms |-> llms]
    /\ outbox' = [k |-> "envelope", env |-> support_a2a_handler(msg, runs, llms, 0),
                  calls |-> HandlerCalls(msg)]
    /\ UNCHANGED <<queryVars, callVars, uuid_ctr, checked, procVars>>

\* POST /a2a of the router
PostRouter(msg) ==
    /\ A2AIdle
    /\ inbox' = [agent |-> "router", msg |-> msg, runs |-> <<>>, llms |-> <<>>]
    /\ outbox' = IF router_a2a_raises(msg)
                 THEN [k |-> "http_500", env |-> AbsentEnvelope, calls |-> <<>>]
                 ELSE [k |-> "envelope", env |-> router_a2a_handler(msg, 0), calls |-> <<>>]
    /\ UNCHANGED <<queryVars, callVars, uuid_ctr, checked, procVars>>

\* check_message_schema and generate_error_response applied to a dict
MirrorError(msg, error_text) ==
    /\ A2AIdle
    /\ checked' = [op |-> "mirror", msg |-> msg, text |-> error_text,
                   chk |-> check_message_schema(msg),
                   out |-> generate_error_response(msg, error_text, 0)]
    /\ UNCHANGED <<queryVars, callVars, uuid_ctr, inbox, outbox, procVars>>

\* create_a2a_message applied to a field set, and check_message_schema to its result
Construct(sender_id, recipient_id, intent, content, msg_type, corr_id) ==
    LET msg == create_a2a_message(sender_id, recipient_id, intent, content, msg_type,
                                  corr_id, 0)
    IN  /\ A2AIdle
        /\ checked' = [op |-> "construct", msg |-> msg, text |-> Str(corr_id),
                       chk |-> check_message_schema(msg), out |-> AbsentEnvelope]
        /\ UNCHANGED <<queryVars, callVars, uuid_ctr, inbox, outbox, procVars>>

\* the tool host runs and phrasings of the handlers of one envelope
RunsFor(msg) == [DOMAIN NormalizeIntents(msg.intent) -> ToolRuns]

LlmsFor(msg) == [DOMAIN NormalizeIntents(msg.intent) -> Phrasings]

NextA2A ==
    \/ A2AIdle /\ \E msg \in Received : \E runs \in RunsFor(msg) :
          PostDataAgent(msg, runs)
    \/ A2AIdle /\ \E msg \in Received : \E runs \in RunsFor(msg), llms \in LlmsFor(msg) :
          PostSupportAgent(msg, runs, llms)
    \/ A2AIdle /\ \E msg \in Received : PostRouter(msg)
    \/ A2AIdle /\ \E msg \in AnyEnvelopes, t \in ErrorTexts : MirrorError(msg, t)
    \/ A2AIdle /\
          \E s \in Senders, r \in Senders, i \in A2AIntentValues \ {AbsentIntent},
             c \in A2APayloads \ {AbsentPayload}, ty \in {"request", "response", "error"},
             ci \in CorrIds : Construct(s, r, i, c, ty, ci)

SpecA2A == Init /\ [][NextA2A]_vars

-----------------------------------------------------------------------------
(* LLM service (llm_service.py): one query_llm call.  A content is the     *)
(* sequence of its whitespace-separated tokens; "{obj}" stands for a       *)
(* complete JSON object with intents and entities, "{}" for the empty      *)
(* object, "{reasoning}" for an object that has neither intents nor        *)
(* entities, "{no_intents}" for one whose intents list is empty, "{note}"  *)
(* for a brace pair that is not JSON, "[1]" for a JSON list, "{broken"    *)
(* for an object that is never closed, "<fence json>" and "<fence>" for   *)
(* the opening and closing line of a fenced json block.                    *)

\* a loop of three attempts
LoopRangeThree == 2 + 1

\* `for attempt in range(2)`
LoopRange == 2

\* what one requests.post attempt is answered with
OracleAnswers ==
    {"503", "500", "401", "exception", "200_no_choices", "200_null_content", "200_dict",
     "200_fenced", "200_prose", "200_prose_braces", "200_garbage", "200_broken", "200_list",
     "200_empty_object", "200_reasoning_only", "200_no_intents"}

\* result["choices"][0]["message"]["content"] of a 200 answer
Content(answer) ==
    CASE answer = "200_dict" -> <<"{obj}">>
      [] answer = "200_fenced" -> <<"Here:", "<fence json>", "{obj}", "<fence>">>
      [] answer = "200_prose" -> <<"Sure:", "{obj}", "thanks">>
      [] answer = "200_prose_braces" -> <<"{obj}", "as", "asked", "{note}">>
      [] answer = "200_empty_object" -> <<"{}">>
      [] answer = "200_reasoning_only" -> <<"{reasoning}">>
      [] answer = "200_no_intents" -> <<"Sure:", "{no_intents}">>
      [] answer = "200_garbage" -> <<"no", "json">>
      [] answer = "200_broken" -> <<"{broken">>
      [] answer = "200_list" -> <<"[1]">>
      [] OTHER -> <<>>

\* the least / greatest member of a non-empty set of indices
MinOf(S) == CHOOSE i \in S : \A j \in S : i <= j

MaxOf(S) == CHOOSE i \in S : \A j \in S : i >= j

\* the tokens that are one JSON object
ObjectTokens == {"{obj}", "{}", "{reasoning}", "{no_intents}"}

clean_json_text(text) ==
    LET opens == {i \in DOMAIN text : text[i] = "<fence json>"}
        closes == IF opens = {} THEN {}
                  ELSE {j \in DOMAIN text : j > MinOf(opens) /\ text[j] = "<fence>"}
        lbraces == {i \in DOMAIN text : text[i] \in ObjectTokens \cup {"{broken", "{note}"}}
        rbraces == IF lbraces = {} THEN {}
                   ELSE {j \in DOMAIN text : j >= MinOf(lbraces)
                                              /\ text[j] \in ObjectTokens \cup {"{note}"}}
    IN  IF closes # {} THEN SubSeq(text, MinOf(opens) + 1, MinOf(closes) - 1)
        ELSE IF rbraces # {} THEN SubSeq(text, MinOf(lbraces), MaxOf(rbraces))
        ELSE text

\* json.loads(cleaned): the kind of value, "fails" for JSONDecodeError
json_loads(cleaned) ==
    CASE cleaned = <<"{obj}">> -> "dict"
      [] cleaned = <<"{}">> -> "empty"
      [] cleaned = <<"{reasoning}">> -> "reasoning"
      [] cleaned = <<"{no_intents}">> -> "no_intents"
      [] cleaned = <<"[1]">> -> "other"
      [] OTHER -> "fails"

\* a loop body that takes every non-200 status for "still loading"
AttemptOutcomeRetryAll(answer, json_mode) ==
    CASE answer \in {"503", "500", "401"} -> [do |-> "retry", value |-> "none", sleep |-> 10]
      [] answer = "exception" -> [do |-> "retry", value |-> "none", sleep |-> 5]
      [] answer = "200_no_choices" -> [do |-> "return", value |-> "none", sleep |-> 0]
      [] answer = "200_null_content" -> [do |-> "raise", value |-> "none", sleep |-> 0]
      [] OTHER ->
           IF json_mode
           THEN LET parsed == json_loads(clean_json_text(Content(answer)))
                IN  [do |-> "return", value |-> IF parsed = "fails" THEN "none" ELSE parsed,
                     sleep |-> 0]
           ELSE [do |-> "return", value |-> "text", sleep |-> 0]

\* one iteration of the loop: return a value, go on to the next iteration
\* (after time.sleep(sleep)), or let an exception leave query_llm
AttemptOutcome(answer, json_mode) ==
    CASE answer = "503" -> [do |-> "retry", value |-> "none", sleep |-> 10]
      [] answer \in {"500", "401"} -> [do |-> "return", value |-> "none", sleep |-> 0]
      [] answer = "exception" -> [do |-> "retry", value |-> "none", sleep |-> 5]
      [] answer = "200_no_choices" -> [do |-> "return", value |-> "none", sleep |-> 0]
      [] answer = "200_null_content" -> [do |-> "raise", value |-> "none", sleep |-> 0]
      [] OTHER ->
           IF json_mode
           THEN LET parsed == json_loads(clean_json_text(Content(answer)))
                IN  [do |-> "return", value |-> IF parsed = "fails" THEN "none" ELSE parsed,
                     sleep |-> 0]
           ELSE [do |-> "return", value |-> "text", sleep |-> 0]

\* what classify_intents_with_llm sees of a returned value; "{obj}" is the
\* prompt's example answer
LLMOther == [k |-> "other", intents |-> AbsentIntent, entities |-> AbsentEntities]

\* the empty object {}: falsy
LLMEmpty == [k |-> "empty", intents |-> AbsentIntent, entities |-> AbsentEntities]

LLMOf(value) ==
    CASE value = "dict" ->
           LLMDict(IntentList(<<"refund_request">>),
                   [k |-> "dict", email |-> Null, status_filter |-> Absent,
                    reason |-> "billing error"])
      [] value = "reasoning" -> LLMDict(AbsentIntent, AbsentEntities)
      [] value = "no_intents" -> LLMDict(IntentList(<<>>), NoEntities)
      [] value = "empty" -> LLMEmpty
      [] value = "none" -> LLMNone
      [] OTHER -> LLMOther

-----------------------------------------------------------------------------
(* Function applications and the oracle call *)

\* nothing of this part has run yet
CallsIdle ==
    /\ sent = NoSent /\ invoked = NoInvoked /\ routed = NoRouted /\ oracle = NoOracle
    /\ pc = "idle" /\ inbox = NoInbox /\ checked = NoChecked

\* the outcomes of the POST send_message is applied under
SendOutcomes == NetOutcomes \cup {"bad_body", "timeout"}

\* the outbound dicts send_message is applied to
SendEnvelopes ==
    {e \in AnyEnvelopes : e.timestamp = UtcNow /\ e.from # Null /\ e.to # Null}

\* the peer's JSON answers
SendReplies ==
    {create_a2a_message("support_agent", "router", IntentList(<<"refund_request">>),
                        ListPayload(<<OkHR("refund_id:REF-998877")>>), "response", "corr-1", 0),
     create_a2a_message("support_agent", "router", IntentName("escalate_issue"),
                        ErrorPayload("boom"), "error", "corr-1", 0)}

\* the attempt counts a connector is built with; 3 is the default
AttemptCounts == {1, 3}

\* AgentConnector(max_attempts=...).send_message(target_url, message)
Send(message, net, reply, max_attempts) ==
    /\ CallsIdle
    /\ sent' = [op |-> "send", message |-> message, net |-> net, reply |-> reply,
                res |-> send_message(SUPPORT_AGENT_URL, message, net, reply),
                max_attempts |-> max_attempts,
                requests |-> Requests(message, net, max_attempts)]
    /\ UNCHANGED <<queryVars, uuid_ctr, a2aVars, invoked, routed, oracle, procVars>>

InvokeRuns == {"spawn_fail", "init_fail", "call_fail", "no_content", "ok"}

InvokeTools ==
    {"get_customer", "list_customers", "update_customer", "create_ticket",
     "get_customer_history", "list_tickets", "reset_everything"}

InvokeArguments ==
    {Args(c, st, d) : c \in {Absent, "1", "12345"}, st \in {Absent, "Active", "vip"},
                      d \in {Absent, "a@b.org", EmptyUpdates}}

\* await agent.invoke_tool(tool_name, arguments)
Invoke(tool_name, arguments, run) ==
    /\ CallsIdle
    /\ invoked' = [op |-> "invoke", tool_name |-> tool_name, arguments |-> arguments,
                   run |-> run, res |-> invoke_tool(tool_name, arguments, run)]
    /\ UNCHANGED <<queryVars, uuid_ctr, a2aVars, sent, routed, oracle, procVars>>

RouteIntents ==
    {"get_customer_info", "get_customer_history", "update_email", "list_customers",
     "refund_request", "cancel_subscription", "upgrade_request", "escalate_issue",
     "support_request", "show_ticket_status", "billing_issues", "make_coffee"}

RouteTexts ==
    Texts \cup {Text(<<"Update", "my", "email", "from", "old@email.com", "to", "new@email.com">>),
                Text(<<"I", "want", "my", "money", "back">>)}

RouteEntities ==
    {NoEntities, NullEntities}
    \cup [k : {"dict"}, email : {Absent, Null, "", "a@b.org"},
          status_filter : {Absent, Null, "Active", "ACTIVE", "active", "Disabled", "vip"},
          reason : {Absent}]

\* build_agent_task applied to one intent, then the task's peer call and the
\* ResultEntry query_endpoint makes of it
Route(intent, customer_id, text, entities, net, run) ==
    LET t == build_agent_task(intent, customer_id, text, entities, 0)
        reply == PeerReply(t.target_url, t.msg, <<run>>, <<"none">>, 2)
        res == send_message(t.target_url, t.msg, net, reply)
        meta == [intent |-> t.intent, requires_escalation |-> t.requires_escalation]
        given == [NoRouted EXCEPT !.op = "route", !.intent = intent,
                                  !.customer_id = customer_id, !.text = text,
                                  !.entities = entities, !.net = net, !.run = run]
    IN  /\ CallsIdle
        /\ routed' = IF t.raised THEN [given EXCEPT !.raised = TRUE]
                     ELSE [given EXCEPT !.target_url = t.target_url, !.msg = t.msg,
                                        !.requires_escalation = t.requires_escalation,
                                        !.res = res, !.entry = Unwrap(meta, res)]
        /\ UNCHANGED <<queryVars, uuid_ctr, a2aVars, sent, invoked, oracle, procVars>>

\* the first elements of the reply payloads Unwrap is applied to: results with a
\* status, a record without one, a bare text
UnwrapItems ==
    {OkHR("refund_id:REF-998877"),
     HR("dict", "error", "Unknown intent: refund_request", Absent, Absent, 0),
     HR("dict", Absent, Absent, Absent, "customer:1", 0),
     TextHR("Customer not found")}

\* the values of results_raw Unwrap is applied to: replies whose payload holds one
\* or two elements, is empty, is an object or is null, dicts without payload, and
\* exceptions
UnwrapReplies ==
    {RawEnvelope(create_a2a_message("support_agent", "router", IntentList(<<"refund_request">>),
                                    p, ty, "corr-1", 0)) :
        p \in {ListPayload(<<x>>) : x \in UnwrapItems}
              \cup {ListPayload(<<x, y>>) : x \in UnwrapItems, y \in UnwrapItems}
              \cup {ErrorPayload("boom")},
        ty \in {"response", "error"}}
    \cup {[RawEnvelope(AbsentEnvelope) EXCEPT !.env.payload = p] :
            p \in {ListPayload(<<>>), EmptyDict, NullPayload}}
    \cup [k : {"dict"}, env : {AbsentEnvelope}, status : {Absent, "error", "ok"},
          error : {Absent, "HTTP 500: oops"}, data : {Absent, Null, "No content returned"}]
    \cup {RawException(t) : t \in {"boom", ""}}

\* one step of the aggregation loop: Unwrap applied to a (meta, res) pair
UnwrapOne(meta, res) ==
    /\ CallsIdle
    /\ routed' = [NoRouted EXCEPT !.op = "unwrap", !.intent = meta.intent,
                                  !.requires_escalation = meta.requires_escalation,
                                  !.res = res, !.entry = Unwrap(meta, res)]
    /\ UNCHANGED <<queryVars, uuid_ctr, a2aVars, sent, invoked, oracle, procVars>>

\* the support agent's request whose refund handler makes the phrasing call
PhrasedRequest(text) ==
    create_a2a_message("router", "support_agent", IntentList(<<"refund_request">>),
                       DictPayload([NoKeys EXCEPT !.customer_id = "1", !.text = text,
                                                  !.entities = NoEntities]),
                       "request", "corr-1", 0)

\* what generate_polite_response gets of the call: an exception, a text or None
PhrasingOf(do, value) ==
    IF do = "raise" THEN "raises" ELSE IF value = "text" THEN "text" ELSE "none"

\* the user texts of the oracle calls: the model's texts and texts that several
\* keyword rules of the fallback match, or none
OracleTexts ==
    Texts \cup {Text(<<"Refund", "or", "Cancel", "my", "ticket">>),
                Text(<<"I", "want", "my", "money", "back", "then", "cancel">>),
                Text(<<"cancel", "for", "active", "customers">>),
                Text(<<"update", "email", "of", "active", "customers">>),
                Text(<<"update", "my", "email", "history">>),
                Text(<<"ticket", "history">>),
                Text(<<"my", "tickets">>),
                Text(<<"active", "email">>),
                Text(<<"hello">>)}

\* query_llm(system_prompt, user_text, json_mode) is called
OracleCall(json_mode, text) ==
    /\ CallsIdle
    /\ oracle' = [NoOracle EXCEPT !.pc = "loop", !.json_mode = json_mode, !.text = text]
    /\ UNCHANGED <<queryVars, uuid_ctr, a2aVars, sent, invoked, routed, procVars>>

\* one iteration of the loop, answered with answer; after the last iteration
\* query_llm returns None.  When the call ends, cls is what
\* classify_intents_with_llm makes of a json-mode call's result, and voiced and
\* reply are what the refund handler and the support agent's /a2a make of a
\* text-mode call's
OracleAttempt(answer) ==
    LET out == AttemptOutcome(answer, oracle.json_mode)
        value == IF out.do = "return" THEN out.value ELSE "none"
        ends == out.do = "return" \/ (out.do = "retry" /\ oracle.attempt + 1 >= LoopRange)
    IN  /\ oracle.pc = "loop"
        /\ oracle' =
             [oracle EXCEPT
                !.answers = Append(@, [answer |-> answer, before |-> oracle.sleeps]),
                !.sleeps = IF out.sleep > 0 THEN Append(@, out.sleep) ELSE @,
                !.attempt = IF out.do = "retry" THEN @ + 1 ELSE @,
                !.pc = IF out.do = "raise" THEN "raised"
                       ELSE IF ends THEN "returned" ELSE "loop",
                !.result = IF out.do = "raise" THEN "pending"
                           ELSE IF ends THEN value ELSE "pending",
                !.cls = IF ends /\ oracle.json_mode
                        THEN classify_intents_with_llm(oracle.text, LLMOf(value))
                        ELSE @,
                !.voiced = IF (ends \/ out.do = "raise") /\ ~oracle.json_mode
                           THEN handle_support_intent("refund_request",
                                                      PhrasedRequest(oracle.text).payload, "ok",
                                                      PhrasingOf(out.do, value))
                           ELSE @,
                !.reply = IF (ends \/ out.do = "raise") /\ ~oracle.json_mode
                          THEN support_a2a_handler(PhrasedRequest(oracle.text), <<"ok">>,
                                                   <<PhrasingOf(out.do, value)>>, 0)
                          ELSE @]
        /\ UNCHANGED <<queryVars, uuid_ctr, a2aVars, sent, invoked, routed, procVars>>

NextCalls ==
    \/ CallsIdle /\ \E message \in SendEnvelopes, net \in SendOutcomes, reply \in SendReplies,
                       max_attempts \in AttemptCounts :
          Send(message, net, reply, max_attempts)
    \/ CallsIdle /\ \E tool_name \in InvokeTools, arguments \in InvokeArguments,
                       run \in InvokeRuns : Invoke(tool_name, arguments, run)
    \/ CallsIdle /\ \E intent \in RouteIntents, customer_id \in {"1", "12345"},
                       text \in RouteTexts, entities \in RouteEntities,
                       net \in {"ok", "unreachable"}, run \in QueryToolRuns :
          Route(intent, customer_id, text, entities, net, run)
    \/ CallsIdle /\ \E intent \in {"refund_request", "get_customer_info"},
                       requires_escalation \in BOOLEAN, res \in UnwrapReplies :
          UnwrapOne([intent |-> intent, requires_escalation |-> requires_escalation], res)
    \/ CallsIdle /\ \E json_mode \in BOOLEAN, text \in OracleTexts : OracleCall(json_mode, text)
    \/ oracle.pc = "loop" /\ \E answer \in OracleAnswers : OracleAttempt(answer)

SpecCalls == Init /\ [][NextCalls]_vars

-----------------------------------------------------------------------------
(* AgentConnector.invoke_tool step by step: the tool host's lifecycle, for  *)
(* calls that run concurrently in one process                               *)

\* `await session.call_tool(...)` follows `await session.initialize()`: the call
\* is issued on a session whose initialization has completed
CallAllowedAnytime(session) == session \in {"open", "initialized"}

CallAllowed(session) == session = "initialized"

\* a process started by stdio_client(server_params), owned by call i
NewProc(i) == [owner |-> i, state |-> "running", session |-> "none", tool_calls |-> 0,
               premature |-> FALSE]

LifecycleTools == {"get_customer", "list_tickets"}

LifecycleArguments == {Args("1", Absent, Absent)}

\* nothing else of the model has run
ToolsIdle == CallsIdle /\ loop = NoLoop

\* `async with stdio_client(server_params)`: the host process is spawned, or the
\* spawn raises and the except returns the error result
Spawn(i, tool_name, arguments, ok) ==
    LET c == hosts.calls[i]
    IN  /\ c.pc = "idle"
        /\ hosts' =
              IF ok
              THEN [calls |-> [hosts.calls EXCEPT ![i] =
                                  [c EXCEPT !.pc = "spawned", !.tool_name = tool_name,
                                            !.arguments = arguments,
                                            !.host = Len(hosts.procs) + 1]],
                    procs |-> Append(hosts.procs, NewProc(i))]
              ELSE [hosts EXCEPT !.calls[i] =
                       [c EXCEPT !.pc = "returned", !.tool_name = tool_name,
                                 !.arguments = arguments, !.run = "spawn_fail",
                                 !.res = invoke_tool(tool_name, arguments, "spawn_fail")]]
        /\ UNCHANGED <<queryVars, uuid_ctr, a2aVars, callVars, loop>>

\* `async with ClientSession(read, write) as session`
OpenSession(i) ==
    LET c == hosts.calls[i]
    IN  /\ c.pc = "spawned"
        /\ hosts' = [hosts EXCEPT !.calls[i].pc = "session",
                                  !.procs[c.host].session = "open"]
        /\ UNCHANGED <<queryVars, uuid_ctr, a2aVars, callVars, loop>>

\* `await session.initialize()`, which completes or raises
Initialize(i, ok) ==
    LET c == hosts.calls[i]
    IN  /\ c.pc = "session"
        /\ hosts' = IF ok
                    THEN [hosts EXCEPT !.calls[i].pc = "initialized",
                                       !.procs[c.host].session = "initialized"]
                    ELSE [hosts EXCEPT !.calls[i].pc = "leave_session",
                                       !.calls[i].run = "init_fail"]
        /\ UNCHANGED <<queryVars, uuid_ctr, a2aVars, callVars, loop>>

\* `await session.call_tool(tool_name, arguments)` and the return statement that
\* follows it, or the exception; either way the with blocks are left
CallTool(i, run) ==
    LET c == hosts.calls[i]
        p == hosts.procs[c.host]
    IN  /\ c.pc \in {"session", "initialized"}
        /\ CallAllowed(p.session)
        /\ hosts' = [hosts EXCEPT !.calls[i].pc = "leave_session",
                                  !.calls[i].run = run,
                                  !.procs[c.host].tool_calls = @ + 1,
                                  !.procs[c.host].premature =
                                      (@ \/ p.session # "initialized")]
        /\ UNCHANGED <<queryVars, uuid_ctr, a2aVars, callVars, loop>>

\* ClientSession's exit
LeaveSession(i) ==
    LET c == hosts.calls[i]
    IN  /\ c.pc = "leave_session"
        /\ hosts' = [hosts EXCEPT !.calls[i].pc = "leave_host",
                                  !.procs[c.host].session = "closed"]
        /\ UNCHANGED <<queryVars, uuid_ctr, a2aVars, callVars, loop>>

\* stdio_client's exit: the host process is ended; then invoke_tool returns the
\* tool's result, or the except returns the error result
LeaveHost(i) ==
    LET c == hosts.calls[i]
    IN  /\ c.pc = "leave_host"
        /\ hosts' = [hosts EXCEPT !.calls[i].pc = "returned",
                                  !.calls[i].res = invoke_tool(c.tool_name, c.arguments, c.run),
                                  !.procs[c.host].state = "terminated"]
        /\ UNCHANGED <<queryVars, uuid_ctr, a2aVars, callVars, loop>>

NextTools ==
    \/ ToolsIdle /\ \E i \in 1..MaxCalls, tool_name \in LifecycleTools,
                       arguments \in LifecycleArguments, ok \in BOOLEAN :
          Spawn(i, tool_name, arguments, ok)
    \/ \E i \in 1..MaxCalls : OpenSession(i)
    \/ \E i \in 1..MaxCalls, ok \in BOOLEAN : Initialize(i, ok)
    \/ \E i \in 1..MaxCalls, run \in {"call_fail", "no_content", "ok"} : CallTool(i, run)
    \/ \E i \in 1..MaxCalls : LeaveSession(i)
    \/ \E i \in 1..MaxCalls : LeaveHost(i)

SpecTools == Init /\ [][NextTools]_vars

-----------------------------------------------------------------------------
(* One agent process and its event loop: the request handlers are coroutines *)
(* of one thread; a handler's synchronous code holds that thread until it    *)
(* reaches an await                                                          *)

\* where an outbound call runs: the peer calls are wrapped in asyncio.to_thread
\* and gathered; query_llm is a plain function (requests.post, time.sleep) that
\* classify_intents_with_llm and generate_polite_response call in the handler's
\* own code; invoke_tool is a coroutine over asynchronous I/O
WhereRun(call) ==
    CASE call = "peer" -> "worker"
      [] call = "oracle" -> "loop"
      [] call = "tool" -> "awaited"
      [] OTHER -> "none"

\* a handler at pc, of the process agent, once its pending call has ended: the
\* stage it goes on to and the call it makes there
Stage(agent, at) ==
    CASE at = "classifying" -> [pc |-> "gathering", call |-> "peer"]
      [] at = "tool" /\ agent = "support_agent" -> [pc |-> "phrasing", call |-> "oracle"]
      [] OTHER -> [pc |-> "done", call |-> "none"]

\* handler h is at stage st: its call starts where WhereRun says, and the event
\* loop thread is held if that is the handler's own code
Enter(h, agent, st) ==
    [agent |-> agent,
     running |-> IF WhereRun(st.call) = "loop" THEN h ELSE 0,
     handlers |-> [loop.handlers EXCEPT ![h] =
                      [pc |-> st.pc, call |-> st.call, where |-> WhereRun(st.call)]]]

\* nothing else of the model has run
LoopIdle == CallsIdle /\ hosts = NoHosts

\* POST /query reaches the router: query_endpoint runs up to A. classify
AcceptQuery(h) ==
    /\ loop.running = 0
    /\ loop.agent \in {"none", "router"}
    /\ loop.handlers[h].pc = "idle"
    /\ loop' = Enter(h, "router", [pc |-> "classifying", call |-> "oracle"])
    /\ UNCHANGED <<queryVars, uuid_ctr, a2aVars, callVars, hosts>>

\* POST /a2a reaches a specialist: the handler of an intent that calls a tool
\* runs up to invoke_tool, that of a support intent without a tool (refund,
\* cancel, upgrade, support_request) up to the phrasing call
AcceptA2A(h, agent, with_tool) ==
    /\ loop.running = 0
    /\ loop.agent \in {"none", agent}
    /\ loop.handlers[h].pc = "idle"
    /\ with_tool \/ agent = "support_agent"
    /\ loop' = Enter(h, agent, IF with_tool THEN [pc |-> "tool", call |-> "tool"]
                               ELSE [pc |-> "phrasing", call |-> "oracle"])
    /\ UNCHANGED <<queryVars, uuid_ctr, a2aVars, callVars, hosts>>

\* a call made in the handler's own code returns: the handler, which holds the
\* event loop thread, goes on
InlineReturns(h) ==
    /\ loop.handlers[h].where = "loop"
    /\ loop' = Enter(h, loop.agent, Stage(loop.agent, loop.handlers[h].pc))
    /\ UNCHANGED <<queryVars, uuid_ctr, a2aVars, callVars, hosts>>

\* a call on a worker thread or over asynchronous I/O ends, whatever the event
\* loop thread is doing; its handler is ready to be resumed
CallCompletes(h) ==
    /\ loop.handlers[h].where \in {"worker", "awaited"}
    /\ loop' = [loop EXCEPT !.handlers[h].where = "ready"]
    /\ UNCHANGED <<queryVars, uuid_ctr, a2aVars, callVars, hosts>>

\* the event loop, free, resumes a handler that is ready
Resume(h) ==
    /\ loop.running = 0
    /\ loop.handlers[h].where = "ready"
    /\ loop' = Enter(h, loop.agent, Stage(loop.agent, loop.handlers[h].pc))
    /\ UNCHANGED <<queryVars, uuid_ctr, a2aVars, callVars, hosts>>

NextLoop ==
    \/ LoopIdle /\ \E h \in 1..MaxRequests : AcceptQuery(h)
    \/ LoopIdle /\ \E h \in 1..MaxRequests, with_tool \in BOOLEAN,
                      agent \in {"support_agent", "customer_data_agent"} :
          AcceptA2A(h, agent, with_tool)
    \/ \E h \in 1..MaxRequests : InlineReturns(h)
    \/ \E h \in 1..MaxRequests : CallCompletes(h)
    \/ \E h \in 1..MaxRequests : Resume(h)

SpecLoop == Init /\ [][NextLoop]_vars

-----------------------------------------------------------------------------
(* Properties *)

Results == response.results

Intents == classified.intents.names

\* the request carried a usable text and customer id and the handler has ended
QueryEnded ==
    /\ body.text.k = "str" /\ body.text.words # <<>>
    /\ body.customer_id \notin {Absent, Null, "0"}
    /\ pc \in {"done", "crashed"}

\* C1: order preservation.  When the query has answered, the results list has
\* one entry per classified intent and entry k carries intent k and the unwrapped
\* outcome of the peer call of task k, whatever the order the calls completed in.
C1_OrderPreserved ==
    pc = "done" =>
        /\ Len(Results) = Len(Intents)
        /\ \A k \in DOMAIN Results :
              /\ Results[k].intent = Intents[k]
              /\ Results[k] = Unwrap([intent |-> Intents[k],
                                      requires_escalation |-> task_metadata[k].requires_escalation],
                                     returned[k])

\* C1 witness: a query answered after its second call completed before its first,
\* the two calls having returned different things.
C1_Witness ==
    /\ pc = "done"
    /\ overtaken
    /\ Len(Results) >= 2
    /\ returned[1] # returned[2]
    /\ returned[2].env.type = "response"
    /\ Results[2].data.k = "item"

\* C2 (as claimed): a request with a text and a customer id always completes with
\* status ok and one ResultEntry per classified intent.
C2_QueryAlwaysCompletes ==
    QueryEnded =>
        /\ pc = "done"
        /\ response.status = "ok"
        /\ classified.intents.kind = "list"
        /\ Len(Results) = Len(Intents)

\* the handling of task k failed: the peer call returned a status=error value, or
\* the peer answered with an error envelope
TaskFailed(k) ==
    \/ returned[k].env.payload.kind = "absent" /\ returned[k].status = "error"
    \/ returned[k].env.type = "error"

\* C3 (as claimed): the ResultEntry of a task whose handling failed has status error.
C3_FailuresFlagged ==
    pc = "done" => \A k \in DOMAIN Results : TaskFailed(k) => Results[k].status = "error"

\* C4 (as claimed): the status of every ResultEntry is ok, error or unknown.
C4_StatusInEnum ==
    pc = "done" => \A k \in DOMAIN Results : Results[k].status \in {"ok", "error", "unknown"}

\* C5 (as claimed): a get_customer_info query whose tool call returned the stored
\* record answers with one ResultEntry: that intent, status ok, the record as data.
C5_CustomerInfoOk ==
    ( /\ pc = "done"
      /\ Intents = <<"get_customer_info">>
      /\ returned[1].env.type = "response"
      /\ returned[1].env.payload.kind = "list"
      /\ returned[1].env.payload.items = <<CustomerRecord(body.customer_id)>> )
    => /\ Len(Results) = 1
       /\ Results[1].intent = "get_customer_info"
       /\ Results[1].status = "ok"
       /\ Results[1].data = ItemData(CustomerRecord(body.customer_id))

\* nothing was classified, built or sent
NothingDispatched == llm_calls = 0 /\ tasks = <<>> /\ posted = {} /\ uuid_ctr = 0

\* C6 (as claimed): the request is rejected exactly when the text or the customer
\* id is absent (no key, or null), and a rejection dispatches nothing.
C6_RejectsExactlyWhenAbsent ==
    pc # "idle" =>
        /\ (pc = "rejected") <=>
              (body.text.k \in {"absent", "null"} \/ body.customer_id \in {Absent, Null})
        /\ pc = "rejected" => NothingDispatched

\* C6 (amended): the request is rejected, with the structured error, exactly when
\* the text or the customer id is absent, null or falsy (the empty text, the id
\* 0), and a rejection dispatches nothing.
C6_RejectsExactlyWhenFalsy ==
    pc # "idle" =>
        /\ (pc = "rejected" /\ response.status = "error"
                /\ response.message = "Missing 'text' or 'customer_id'")
              <=> \/ body.text.k \in {"absent", "null"}
                  \/ body.text.words = <<>>
                  \/ body.customer_id \in {Absent, Null, "0"}
        /\ pc = "rejected" => NothingDispatched

\* C6 witness: a request with a text and the customer id 0 has been rejected.
C6_Witness ==
    /\ pc = "rejected"
    /\ body.text.k = "str" /\ body.text.words # <<>>
    /\ body.customer_id = "0"
    /\ NothingDispatched

\* C7 (as claimed): the envelope an agent answers with carries the correlation id
\* of the envelope it received (one that has a correlation id that is not null).
C7_CorrelationPreserved ==
    (outbox.k = "envelope" /\ inbox.msg.correlation_id \notin {Absent, Null})
        => outbox.env.correlation_id = inbox.msg.correlation_id

\* C8: for an original e that has from, to and intent, and an error text t,
\* mirrorError(e, t) has type error, from = e.to, to = e.from, intent = e.intent
\* and the payload {error: t}.
C8_MirrorError ==
    ( /\ checked.op = "mirror"
      /\ checked.msg.from # Absent
      /\ checked.msg.to # Absent
      /\ checked.msg.intent.kind # "absent" )
    => /\ checked.out.type = "error"
       /\ checked.out.from = checked.msg.to
       /\ checked.out.to = checked.msg.from
       /\ checked.out.intent = checked.msg.intent
       /\ checked.out.payload.kind = "dict"
       /\ checked.out.payload.items = <<>>
       /\ checked.out.payload.d =
             [customer_id |-> Absent, status |-> Absent, updates |-> Absent, data |-> Absent,
              text |-> AbsentText, entities |-> AbsentEntities, error |-> checked.text]

\* C8 witness: the error of an envelope from the router to the support agent.
C8_Witness ==
    /\ checked.op = "mirror"
    /\ checked.msg.from = "router"
    /\ checked.msg.to = "support_agent"
    /\ checked.msg.intent = IntentList(<<"update_email", "get_customer_history">>)
    /\ checked.text = "boom"
    /\ checked.out.from = "support_agent"

\* the required fields a dict lacks, read off the dict
Lacks(m) ==
    {f \in {"message_id", "from", "to", "type", "correlation_id"} : m[f] = Absent}
    \cup (IF m.intent.kind = "absent" THEN {"intent"} ELSE {})
    \cup (IF m.payload.kind = "absent" THEN {"payload"} ELSE {})

\* C9: validate succeeds exactly on the dicts that have every required field, so
\* on everything construct builds; otherwise its error names every missing
\* required field, each once.
C9_Validate ==
    checked.op # "none" =>
        /\ checked.chk.ok <=> Lacks(checked.msg) = {}
        /\ SeqToSet(checked.chk.missing) = Lacks(checked.msg)
        /\ Len(checked.chk.missing) = Cardinality(Lacks(checked.msg))
        /\ ~checked.chk.ok =>
              checked.chk.error =
                  "Invalid A2A Message. Missing: [" \o JoinNames(checked.chk.missing) \o "]"
        /\ checked.op = "construct" => checked.chk.ok

\* C9 witness: validate has failed on a dict that lacks three required fields.
C9_Witness ==
    /\ checked.op = "mirror"
    /\ ~checked.chk.ok
    /\ Lacks(checked.msg) = {"from", "payload", "correlation_id"}
    /\ checked.chk.missing = <<"from", "payload", "correlation_id">>

\* every field of an envelope is present and not null
AllFieldsSet(e) ==
    /\ \A f \in {"message_id", "from", "to", "type", "correlation_id", "timestamp"} :
          e[f] \notin {Absent, Null}
    /\ e.intent.kind \notin {"absent", "null"}
    /\ e.payload.kind \notin {"absent", "null"}

\* C10 (as claimed): every envelope an agent answers with (a response, an error,
\* the router's /a2a reply) has all its fields present and not null.
C10_AllFieldsSet ==
    outbox.k = "envelope" => AllFieldsSet(outbox.env)

\* C11: send_message never raises.  A 200 answer to an outbound envelope that
\* passes validation returns the peer's reply; a non-success status, a network
\* failure or timeout, an unreadable body and an outbound envelope that fails
\* validation each return a dict with status error and a text for the cause.
C11_SendNeverRaises ==
    sent.op = "send" =>
        /\ sent.res.k = "dict"
        /\ IF sent.net = "ok" /\ Lacks(sent.message) = {}
           THEN sent.res = RawEnvelope(sent.reply)
           ELSE /\ sent.res.status = "error"
                /\ sent.res.error \notin {Absent, Null, ""}
                /\ sent.res.env = AbsentEnvelope

\* C11 witness: the peer would have answered 200, but the outbound envelope lacks
\* required fields and an error result came back.
C11_Witness ==
    /\ sent.op = "send"
    /\ sent.net = "ok"
    /\ Lacks(sent.message) = {"from", "intent"}
    /\ sent.res.status = "error"
    /\ sent.res.error = "Invalid A2A Message. Missing: ['from', 'intent']"

\* the keys of a handler result that is a dict
Shape(hr) ==
    {f \in {"status", "data", "error", "answer_text"} : hr[f] # Absent}

\* C12 (as claimed): a tool host that fails to start, a session whose
\* initialization or tool call fails and a reply without content each give a
\* dict with status error, and these dicts all have the same keys.
C12_UniformErrors ==
    (invoked.op = "invoke" /\ invoked.run # "ok") =>
        /\ invoked.res.kind = "dict"
        /\ invoked.res.status = "error"
        /\ Shape(invoked.res)
             = Shape(invoke_tool(invoked.tool_name, invoked.arguments, "spawn_fail"))

\* C13: in one oracle call a 503 answer to the first attempt is followed by
\* exactly one further attempt, made after the fixed delay of 10 s; when that
\* attempt is answered 503 too the call returns no usable result; no call makes a
\* third attempt.
C13_RetryOnce ==
    /\ Len(oracle.answers) <= 2
    /\ (Len(oracle.answers) >= 1 /\ oracle.answers[1].answer = "503") =>
          /\ oracle.pc \in {"returned", "raised"} => Len(oracle.answers) = 2
          /\ Len(oracle.answers) = 2 => oracle.answers[2].before = <<10>>
          /\ (Len(oracle.answers) = 2 /\ oracle.answers[2].answer = "503") =>
                oracle.pc = "returned" /\ oracle.result = "none"

\* C13 witness: a call has returned after two attempts that were both answered 503.
C13_Witness ==
    /\ oracle.pc = "returned"
    /\ Len(oracle.answers) = 2
    /\ oracle.answers[1].answer = "503"
    /\ oracle.answers[2].answer = "503"
    /\ oracle.result = "none"

\* an answer the call cannot use: a non-success status other than 503, or, in
\* json mode, a content that fails to parse after extraction
HardFailure(answer) ==
    \/ answer \in {"500", "401"}
    \/ oracle.json_mode /\ answer \in {"200_garbage", "200_broken", "200_prose_braces"}

\* C14: an attempt answered with a non-success status other than 503, or with a
\* content that fails to parse after extraction, is the call's last attempt: the
\* call returns no usable result without sleeping and without raising, and
\* classify returns a classification (the fallback intent, no entities).
C14_HardFailureReturnsNone ==
    \A i \in DOMAIN oracle.answers :
        HardFailure(oracle.answers[i].answer) =>
            /\ i = Len(oracle.answers)
            /\ oracle.pc = "returned"
            /\ oracle.result = "none"
            /\ oracle.sleeps = oracle.answers[i].before
            /\ oracle.json_mode =>
                  /\ oracle.cls.intents = IntentList(<<FallbackIntent(oracle.text.words)>>)
                  /\ oracle.cls.entities = NoEntities

\* C14 witness: a first attempt answered with content that is not JSON ended the
\* call with no usable result, and classify fell back on the text.
C14_Witness ==
    /\ oracle.pc = "returned"
    /\ oracle.json_mode
    /\ Len(oracle.answers) = 1
    /\ oracle.answers[1].answer = "200_garbage"
    /\ oracle.result = "none"
    /\ oracle.cls.intents = IntentList(<<"list_customers">>)

\* C15: when classification yields the empty intent list the handler does not
\* fail, builds no task, draws no envelope id and sends nothing to a peer, and
\* its answer is status ok with an empty results list.
C15_NoIntentsNoTasks ==
    (pc \in {"gathering", "done", "crashed"} /\ classified.intents = IntentList(<<>>)) =>
        /\ pc # "crashed"
        /\ tasks = <<>> /\ task_metadata = <<>> /\ results_raw = <<>>
        /\ posted = {}
        /\ uuid_ctr = 0
        /\ pc = "done" => response.status = "ok" /\ response.results = <<>>

\* C15 witness: a query classified by the oracle with no intent has been answered.
C15_Witness ==
    /\ pc = "done"
    /\ llm_calls = 1
    /\ classified.intents = IntentList(<<>>)
    /\ classified.entities = NullEntities
    /\ response.status = "ok"
    /\ response.results = <<>>

\* an intent that is in neither build_agent_task's table of data intents nor
\* handle_support_intent's branches
UnknownIntent(i) ==
    i \notin {"get_customer_info", "get_customer_history", "update_email", "list_customers",
              "upgrade_request", "upgrade_account", "show_ticket_status", "show_ticket_history",
              "get_active_customers_with_open_tickets", "escalate_issue", "billing_issues",
              "angry_customer", "refund_request", "cancel_subscription", "support_request"}

\* the task of intent k carries that intent alone and its entry is made from its
\* own peer call
OwnEntry(k) ==
    /\ tasks[k].msg.intent = IntentName(Intents[k])
    /\ Results[k] = Unwrap([intent |-> Intents[k],
                            requires_escalation |-> task_metadata[k].requires_escalation],
                           returned[k])

\* C16 (as claimed): the entry of an unknown intent has status error and its data
\* names the intent.
C16_UnknownIntentNamed ==
    pc = "done" =>
        \A k \in DOMAIN Results :
            UnknownIntent(Intents[k]) =>
                /\ Results[k].status = "error"
                /\ Results[k].data.k = "item"
                /\ Results[k].data.item.error = "Unknown intent: " \o Intents[k]

\* C16 (amended): building the task of an unknown intent never fails the query;
\* its entry has status error; the data is the handler's error naming the intent
\* when the support specialist answered, and the text of the transport failure
\* when the peer call failed; every entry of the query is made from its own task.
C16_UnknownIntentFlagged ==
    /\ (pc \in {"gathering", "done", "crashed"} /\ classified.intents.kind = "list") =>
          \A k \in DOMAIN Intents :
              UnknownIntent(Intents[k]) =>
                  ~build_agent_task(Intents[k], body.customer_id, body.text,
                                    classified.entities, 0).raised
    /\ pc = "done" =>
          \A k \in DOMAIN Results :
              /\ OwnEntry(k)
              /\ UnknownIntent(Intents[k]) =>
                    /\ Results[k].status = "error"
                    /\ tasks[k].target_url = SUPPORT_AGENT_URL
                    /\ IF returned[k].env.type = "response"
                       THEN /\ Results[k].data.k = "item"
                            /\ Results[k].data.item.error = "Unknown intent: " \o Intents[k]
                       ELSE /\ Results[k].data.k = "text"
                            /\ Results[k].data.text = returned[k].error

\* C16 witness: a query of a known and an unknown intent; the unknown one is
\* flagged by the support specialist, the known one answered with its record.
C16_Witness ==
    /\ pc = "done"
    /\ Intents = <<"get_customer_info", "make_coffee">>
    /\ Results[2].status = "error"
    /\ Results[2].data.item.error = "Unknown intent: make_coffee"
    /\ Results[1].data = ItemData(CustomerRecord("1"))

\* the intents get_handoff_target gives to the Customer Data Agent (port 8101)
DataIntents == {"get_customer_info", "get_customer_history", "update_email", "list_customers"}

\* C17: build_agent_task sends the four data intents to the data specialist
\* (port 8101, recipient customer_data_agent) with a payload keyed by the customer
\* id, and every other intent to the support specialist (port 8102, recipient
\* support_agent) with the customer id, the raw text and the entities.
C17_RouteIntent ==
    (routed.op = "route" /\ ~routed.raised) =>
        /\ routed.msg.from = "router"
        /\ routed.msg.type = "request"
        /\ routed.msg.intent = IntentName(routed.intent)
        /\ routed.msg.payload.kind = "dict"
        /\ routed.msg.payload.d.customer_id = routed.customer_id
        /\ IF routed.intent \in DataIntents
           THEN /\ routed.target_url = "http://127.0.0.1:8101"
                /\ routed.msg.to = "customer_data_agent"
                /\ routed.msg.payload.d.text = AbsentText
                /\ routed.msg.payload.d.entities = AbsentEntities
           ELSE /\ routed.target_url = "http://127.0.0.1:8102"
                /\ routed.msg.to = "support_agent"
                /\ routed.msg.payload.d.text = routed.text
                /\ routed.msg.payload.d.entities = routed.entities

\* C17 witness: a history request went to the data specialist.
C17_Witness ==
    /\ routed.op = "route"
    /\ routed.intent = "get_customer_history"
    /\ routed.customer_id = "12345"
    /\ routed.target_url = "http://127.0.0.1:8101"
    /\ routed.msg.to = "customer_data_agent"
    /\ routed.msg.payload.d.customer_id = "12345"

\* C18: requires_escalation of a task and of the ResultEntry made from it is true
\* exactly for update_email, refund_request, cancel_subscription, upgrade_request
\* and escalate_issue, whatever the text, the entities and the outcome of the
\* peer call.
C18_EscalationByIntent ==
    (routed.op = "route" /\ ~routed.raised) =>
        /\ routed.requires_escalation <=>
              routed.intent \in {"update_email", "refund_request", "cancel_subscription",
                                 "upgrade_request", "escalate_issue"}
        /\ routed.entry.requires_escalation = routed.requires_escalation
        /\ routed.entry.intent = routed.intent

\* C18 witness: a cancellation whose peer call failed still requires escalation.
C18_Witness ==
    /\ routed.op = "route"
    /\ routed.intent = "cancel_subscription"
    /\ routed.net = "unreachable"
    /\ routed.entry.status = "error"
    /\ routed.entry.requires_escalation

\* a listing task whose peer call and tool call both went through
Listed ==
    /\ routed.op = "route" /\ ~routed.raised
    /\ routed.intent = "list_customers"
    /\ routed.net = "ok" /\ routed.run = "ok"

\* C19: for a listing, a status filter that is 'active' up to letter case reaches
\* the data specialist as 'active' and the record store is queried for the active
\* customers; a status filter that is not recognized gives a listing with no
\* filter and no error.
C19_StatusFilterNormalized ==
    Listed =>
        /\ routed.entities.status_filter \in {"Active", "ACTIVE", "active"} =>
              /\ routed.msg.payload.d.status = "active"
              /\ routed.entry.status = "ok"
              /\ routed.entry.data.k = "item"
              /\ routed.entry.data.item = ListHR("customers:active", 1)
        /\ routed.entities.status_filter = "vip" =>
              /\ routed.entry.status = "ok"
              /\ routed.entry.data.k = "item"
              /\ routed.entry.data.item = ListHR("customers", 1)

\* C19 witness: the filter ACTIVE has listed the active customers.
C19_Witness ==
    /\ Listed
    /\ routed.entities.status_filter = "ACTIVE"
    /\ routed.msg.payload.d.status = "active"
    /\ routed.entry.data.item.rec = "customers:active"

\* the positions of the email-shaped tokens of the routed text
EmailPositions == {i \in DOMAIN routed.text.words : routed.text.words[i] \in EmailShaped}

\* C20: the updates of an update_email task hold the email entity when the
\* classifier supplied one (a non-empty value), whatever the text; otherwise the
\* first email-shaped token of the text; and they are empty when there is neither.
C20_EmailRecovered ==
    (routed.op = "route" /\ ~routed.raised /\ routed.intent = "update_email") =>
        LET updates == routed.msg.payload.d.updates
        IN  IF routed.entities.email \notin {Absent, Null, ""}
            THEN updates = routed.entities.email
            ELSE IF EmailPositions # {}
            THEN /\ updates \in EmailShaped
                 /\ \E i \in EmailPositions :
                       /\ updates = routed.text.words[i]
                       /\ \A j \in EmailPositions : i <= j
            ELSE updates = EmptyUpdates

\* C20 witness: no email entity, a text with two addresses: the first is taken.
C20_Witness ==
    /\ routed.op = "route"
    /\ routed.intent = "update_email"
    /\ routed.entities.k = "dict"
    /\ routed.entities.email = Null
    /\ routed.text = Text(<<"Update", "my", "email", "from", "old@email.com", "to",
                            "new@email.com">>)
    /\ routed.msg.payload.d.updates = "old@email.com"

\* the last answer of the oracle call, once it has ended
LastAnswer == oracle.answers[Len(oracle.answers)].answer

\* C21 (as claimed): a json-mode call whose last answer carries the object
\* "{obj}", alone, in a fenced block, or as a brace span inside other text,
\* returns the parsed object.
C21_SameParsedValue ==
    (/\ oracle.pc = "returned" /\ oracle.json_mode
     /\ "{obj}" \in SeqToSet(Content(LastAnswer)))
        => oracle.result = "dict"

\* the request was POSTed to one of the two specialists
AtSpecialist == inbox.agent \in {"customer_data_agent", "support_agent"}

\* C22: a specialist that receives an envelope lacking a required field creates
\* no handler coroutine (so calls no tool) and answers with the error envelope
\* generate_error_response makes of the received envelope and the validation's
\* message: type error, payload {error: message} and no handler result.
C22_InvalidEnvelopeNotHandled ==
    (AtSpecialist /\ Lacks(inbox.msg) # {})
        => /\ outbox.calls = <<>>
           /\ outbox.k = "envelope"
           /\ outbox.env.type = "error"
           /\ outbox.env.from = inbox.msg.to
           /\ outbox.env.payload.kind = "dict"
           /\ outbox.env.payload.items = <<>>
           /\ outbox.env.payload.d.error = check_message_schema(inbox.msg).error
           /\ outbox.env = generate_error_response(inbox.msg,
                                                   check_message_schema(inbox.msg).error, 0)

\* C22 witness: the support agent answers an envelope that names two intents and
\* has no from field, its tool host and phrasing at hand.
C22_Witness ==
    /\ inbox.agent = "support_agent"
    /\ inbox.msg.from = Absent
    /\ inbox.msg.intent = IntentList(<<"refund_request", "escalate_issue">>)
    /\ inbox.runs = <<"ok", "ok">>
    /\ outbox.env.type = "error"
    /\ outbox.env.to = "unknown"
    /\ outbox.calls = <<>>

\* the reply of the specialist that received inbox.msg to the envelope m, under
\* the same tool host runs and phrasings
ReplyTo(m) ==
    IF inbox.agent = "customer_data_agent" THEN handle_a2a(m, inbox.runs, 0)
    ELSE support_a2a_handler(m, inbox.runs, inbox.llms, 0)

\* C23: a specialist that receives an envelope whose intent is the single name X
\* creates one handler coroutine, for X, and its reply has the type and the
\* payload of its reply to the same envelope with the intent [X].
C23_NameAsOneElementList ==
    (AtSpecialist /\ Lacks(inbox.msg) = {} /\ inbox.msg.intent.kind = "name")
        => LET X == inbox.msg.intent.names[1]
               listed == [inbox.msg EXCEPT !.intent = IntentList(<<X>>)]
           IN  /\ outbox.calls = <<X>>
               /\ outbox.calls = HandlerCalls(listed)
               /\ outbox.env.type = ReplyTo(listed).type
               /\ outbox.env.payload = ReplyTo(listed).payload

\* C23 witness: the support agent answers the bare intent refund_request with one
\* result, the refund.
C23_Witness ==
    /\ inbox.agent = "support_agent"
    /\ inbox.msg.intent = IntentName("refund_request")
    /\ inbox.msg.from = "router"
    /\ outbox.calls = <<"refund_request">>
    /\ outbox.env.type = "response"
    /\ Len(outbox.env.payload.items) = 1
    /\ outbox.env.payload.items[1].rec = "refund_id:REF-998877"

\* the intents the specialist's handlers are created for, and handler i's outcome
Requested == NormalizeIntents(inbox.msg.intent)

HandlerOutcome(i) ==
    IF inbox.agent = "customer_data_agent"
    THEN handle_customer_intent(Requested[i], inbox.msg.payload, inbox.runs[i])
    ELSE handle_support_intent(Requested[i], inbox.msg.payload, inbox.runs[i], inbox.llms[i])

\* the envelope is valid and every handler returns
AllHandlersReturn ==
    /\ AtSpecialist /\ Lacks(inbox.msg) = {}
    /\ \A i \in DOMAIN Requested : ~HandlerOutcome(i).raised

\* C27 (as claimed): when every handler returns, the reply has type response, its
\* payload is the sequence of the handler results in the order of the request's
\* intents, its to is the request's from and its from is the request's to.
C27_ReplyMirrorsRequest ==
    AllHandlersReturn
        => /\ outbox.env.type = "response"
           /\ outbox.env.payload.kind = "list"
           /\ Len(outbox.env.payload.items) = Len(Requested)
           /\ \A i \in DOMAIN Requested : outbox.env.payload.items[i] = HandlerOutcome(i).value
           /\ outbox.env.to = inbox.msg.from
           /\ outbox.env.from = inbox.msg.to

\* C27 (amended): when every handler returns, the reply has type response, its to
\* is the request's from and its from is the specialist's own name, whatever the
\* request's to; for a request with at least one intent its payload is the
\* sequence of the handler results in the order of the request's intents, and
\* for a request with an empty intent list it is the empty object.
C27_ReplyShape ==
    AllHandlersReturn
        => /\ outbox.env.type = "response"
           /\ outbox.env.to = inbox.msg.from
           /\ outbox.env.from = inbox.agent
           /\ Requested # <<>> =>
                 /\ outbox.env.payload.kind = "list"
                 /\ Len(outbox.env.payload.items) = Len(Requested)
                 /\ \A i \in DOMAIN Requested :
                       outbox.env.payload.items[i] = HandlerOutcome(i).value
           /\ Requested = <<>> => outbox.env.payload = EmptyDict

\* C27 witness: the customer data agent answers a request of the router, addressed
\* to it, for an email update and a record, with two different results in the order
\* of the request.
C27_Witness ==
    /\ inbox.agent = "customer_data_agent"
    /\ inbox.msg.to = "customer_data_agent"
    /\ inbox.msg.from = "router"
    /\ inbox.msg.intent = IntentList(<<"update_email", "get_customer_info">>)
    /\ inbox.runs = <<"ok", "ok">>
    /\ outbox.env.type = "response"
    /\ outbox.env.to = "router"
    /\ Len(outbox.env.payload.items) = 2
    /\ outbox.env.payload.items[1] # outbox.env.payload.items[2]

\* the intents a specialist's dispatch has a branch for
Handled ==
    IF inbox.agent = "customer_data_agent"
    THEN {"get_customer_info", "list_customers", "update_email", "update_customer",
          "get_customer_history"}
    ELSE {"upgrade_request", "upgrade_account", "show_ticket_status", "show_ticket_history",
          "get_active_customers_with_open_tickets", "get_customer_history", "escalate_issue",
          "billing_issues", "angry_customer", "refund_request", "cancel_subscription",
          "support_request"}

\* the text of the error result for intent x: under the key data at the customer
\* data agent, under the key error at the support agent
NamesIntent(item, x) ==
    IF inbox.agent = "customer_data_agent" THEN item.data = "Unknown intent: " \o Str(x)
    ELSE item.error = "Unknown intent: " \o Str(x)

\* C28: for a valid envelope, when every handler returns, an intent the dispatch
\* has no branch for has a status=error result naming it at its place in the reply
\* payload and every other place holds its handler's result; when a handler
\* raises, the reply is one error envelope whose payload is {error: the exception's
\* text} and holds no handler result.
C28_UnknownIntentVersusRaise ==
    (AtSpecialist /\ Lacks(inbox.msg) = {})
        => /\ AllHandlersReturn =>
                 /\ outbox.env.type = "response"
                 /\ \A i \in DOMAIN Requested :
                       IF Requested[i] \notin Handled
                       THEN /\ outbox.env.payload.items[i].status = "error"
                            /\ NamesIntent(outbox.env.payload.items[i], Requested[i])
                       ELSE outbox.env.payload.items[i] = HandlerOutcome(i).value
           /\ ~AllHandlersReturn =>
                 /\ outbox.env.type = "error"
                 /\ outbox.env.from = inbox.msg.to
                 /\ outbox.env.to = inbox.msg.from
                 /\ outbox.env.payload.kind = "dict"
                 /\ outbox.env.payload.items = <<>>
                 /\ outbox.env.payload.d.error
                       \in {HandlerOutcome(i).error : i \in {j \in DOMAIN Requested :
                                                                HandlerOutcome(j).raised}}

\* C28 witness: the customer data agent, asked for a refund (no branch) and a
\* record, answers with the error naming refund_request first and the record second.
C28_Witness ==
    /\ inbox.agent = "customer_data_agent"
    /\ inbox.msg.intent = IntentList(<<"refund_request", "get_customer_info">>)
    /\ inbox.msg.payload.d.customer_id = "1"
    /\ inbox.runs = <<"ok", "ok">>
    /\ outbox.env.type = "response"
    /\ outbox.env.payload.items[1].data = "Unknown intent: refund_request"
    /\ outbox.env.payload.items[2].status # "error"

\* the other case of C28: the customer data agent, asked for a record and an email
\* update with a payload that has no customer_id, answers with the KeyError alone.
C28_RaiseReached ==
    /\ inbox.agent = "customer_data_agent"
    /\ inbox.msg.intent = IntentList(<<"get_customer_info", "update_email">>)
    /\ inbox.msg.payload = EmptyDict
    /\ inbox.msg.from = "router"
    /\ outbox.env.type = "error"
    /\ outbox.env.payload.d.error = "'customer_id'"
    /\ outbox.env.payload.items = <<>>

\* C24 (as claimed): when the phrasing call of the refund handler ends without a
\* phrasing, whatever its attempts were answered with, the handler returns its
\* structured result with the canned string as answer_text, and the support
\* agent's reply to the request is a response.
C24_PhrasingNeverFails ==
    (oracle.pc \in {"returned", "raised"} /\ ~oracle.json_mode /\ oracle.result # "text")
        => /\ ~oracle.voiced.raised
           /\ oracle.voiced.value.status = "ok"
           /\ oracle.voiced.value.rec = "refund_id:REF-998877"
           /\ oracle.voiced.value.answer_text
                 = "Action processed: Refund initiated successfully."
           /\ oracle.reply.type = "response"
           /\ oracle.reply.payload.items = <<oracle.voiced.value>>

\* the cases of C24 in which the code does as claimed: the phrasing call returned
\* None after its last answer, a failure status, a network failure or a reply
\* without choices
C24_CannedReached ==
    /\ oracle.pc = "returned" /\ ~oracle.json_mode /\ oracle.result = "none"
    /\ LastAnswer \in {"500", "exception", "200_no_choices"}
    /\ oracle.voiced.value.answer_text = "Action processed: Refund initiated successfully."
    /\ oracle.reply.type = "response"

\* C25: every peer call of the request exists, one per classified intent, from
\* the moment the gather is awaited, so before any of them has completed; no
\* response is made while a call is pending, whatever the completed ones returned;
\* and the aggregated response holds, for every call, what that call returned.
C25_GatherWaitsForAll ==
    /\ pc \in {"gathering", "done"} =>
          /\ Len(tasks) = Len(Intents)
          /\ DOMAIN returned = DOMAIN tasks
          /\ completed = {k \in DOMAIN tasks : returned[k] # Pending}
    /\ (pc = "gathering" /\ completed # DOMAIN tasks) => response = NoResponse
    /\ pc = "done" =>
          /\ completed = DOMAIN tasks
          /\ \A k \in DOMAIN tasks : returned[k] # Pending /\ results_raw[k] = returned[k]

\* C25 witness: of two calls the second completed first, with a failure, and the
\* query answered only after the first had completed too, with a reply.
C25_Witness ==
    /\ pc = "done"
    /\ Len(tasks) = 2
    /\ overtaken
    /\ returned[2].status = "error"
    /\ returned[2].env = AbsentEnvelope
    /\ returned[1].env.type = "response"
    /\ Len(Results) = 2

\* C26: the ResultEntry made of one peer result carries the task's intent and
\* escalation flag; for a reply whose payload is a non-empty list its data is the
\* first element and its status that element's status field, ok when the element
\* has none or is no object; for an empty payload (empty list or empty object) its
\* status is ok and its data the empty payload; for a dict without payload its
\* status is the dict's status, unknown without one, and its data the dict's data,
\* else its error, else nothing; for an exception its status is error and its data
\* the exception's text.
C26_UnwrapRule ==
    routed.op = "unwrap" =>
        LET res == routed.res
            e == routed.entry
            p == res.env.payload
        IN  /\ e.intent = routed.intent
            /\ e.requires_escalation = routed.requires_escalation
            /\ res.k = "exception" =>
                  e.status = "error" /\ e.data.k = "text" /\ e.data.text = res.error
            /\ (res.k = "dict" /\ p.kind = "list" /\ p.items # <<>>) =>
                  /\ e.data.k = "item" /\ e.data.item = p.items[1]
                  /\ e.status = IF p.items[1].kind = "dict" /\ p.items[1].status # Absent
                                THEN p.items[1].status ELSE "ok"
            /\ (res.k = "dict" /\ (p = ListPayload(<<>>) \/ p = EmptyDict)) =>
                  e.status = "ok" /\ e.data.k = "payload" /\ e.data.payload = p
            /\ (res.k = "dict" /\ p.kind = "absent") =>
                  /\ e.status = (IF res.status = Absent THEN "unknown" ELSE res.status)
                  /\ IF res.data \notin {Absent, Null}
                     THEN e.data.k = "text" /\ e.data.text = res.data
                     ELSE IF res.error # Absent
                     THEN e.data.k = "text" /\ e.data.text = res.error
                     ELSE e.data.k = "none"

\* C26 witness: a reply that says nothing of a status at its top level and whose
\* payload holds two results, the first with status error, is unwrapped to the
\* first result and the status error.
C26_Witness ==
    /\ routed.op = "unwrap"
    /\ routed.res.k = "dict"
    /\ routed.res.status = Absent
    /\ routed.res.env.type = "response"
    /\ Len(routed.res.env.payload.items) = 2
    /\ routed.res.env.payload.items[1].status = "error"
    /\ routed.res.env.payload.items[2].status = "ok"
    /\ routed.entry.status = "error"
    /\ routed.entry.data.item = routed.res.env.payload.items[1]

\* the keyword rules of the fallback in their order, and the intent of each
RuleMatches(i, words) ==
    CASE i = 1 -> InText(words, "refund") \/ MoneyBack(words)
      [] i = 2 -> InText(words, "cancel")
      [] i = 3 -> InText(words, "active") /\ InText(words, "customers")
      [] i = 4 -> InText(words, "email") /\ InText(words, "update")
      [] i = 5 -> InText(words, "history")
      [] i = 6 -> InText(words, "ticket")

RuleIntent ==
    <<"refund_request", "cancel_subscription", "list_customers", "update_email",
      "get_customer_history", "show_ticket_status">>

\* C29: when the json-mode oracle call returns None, classify returns one intent and
\* the empty entity map; the intent is that of the first rule, in the order refund,
\* cancel, active customers, email update, history, ticket, that matches the
\* lower-cased text, and support_request when none matches.
C29_FallbackFirstMatch ==
    (oracle.pc = "returned" /\ oracle.json_mode /\ oracle.result = "none")
        => LET matching == {i \in 1..6 : RuleMatches(i, oracle.text.words)}
           IN  /\ oracle.cls.entities = NoEntities
               /\ oracle.cls.intents.kind = "list"
               /\ Len(oracle.cls.intents.names) = 1
               /\ oracle.cls.intents.names[1]
                     = IF matching = {} THEN "support_request"
                       ELSE RuleIntent[MinOf(matching)]

\* C29 witness: the oracle was loading twice; the text matches the refund, cancel
\* and ticket rules and is classified as a refund request.
C29_Witness ==
    /\ oracle.pc = "returned" /\ oracle.json_mode /\ oracle.result = "none"
    /\ Len(oracle.answers) = 2
    /\ oracle.text = Text(<<"Refund", "or", "Cancel", "my", "ticket">>)
    /\ {i \in 1..6 : RuleMatches(i, oracle.text.words)} = {1, 2, 6}
    /\ oracle.cls.intents = IntentList(<<"refund_request">>)

\* C30: classify takes the keyword fallback (one intent, the empty entity map)
\* exactly when the json-mode oracle call returns None, a JSON value that is no
\* object, or the empty object; an object without an intents key or with an empty
\* intents list is used as it is and classify returns no intent; an object with
\* intents and entities gives those.
C30_FallbackExactlyWhenUnusable ==
    (oracle.pc = "returned" /\ oracle.json_mode)
        => /\ oracle.result \in {"none", "other", "empty", "reasoning", "no_intents", "dict"}
           /\ oracle.result \in {"none", "other", "empty"} =>
                 /\ Len(oracle.cls.intents.names) = 1
                 /\ oracle.cls.intents.names[1] \in SeqToSet(RuleIntent) \cup {"support_request"}
                 /\ oracle.cls.entities = NoEntities
           /\ oracle.result \in {"reasoning", "no_intents"} =>
                 /\ oracle.cls.intents = IntentList(<<>>)
                 /\ oracle.cls.entities = NoEntities
           /\ oracle.result = "dict" =>
                 /\ oracle.cls.intents = IntentList(<<"refund_request">>)
                 /\ oracle.cls.entities.reason = "billing error"

\* C30 witness: the oracle answers a text that three keyword rules match with an
\* object whose intents list is empty, and classify returns no intent.
C30_Witness ==
    /\ oracle.pc = "returned" /\ oracle.json_mode
    /\ LastAnswer = "200_no_intents"
    /\ oracle.result = "no_intents"
    /\ oracle.text = Text(<<"Refund", "or", "Cancel", "my", "ticket">>)
    /\ oracle.cls.intents = IntentList(<<>>)

\* the other side of C30: the empty object is parsed and the fallback is taken
C30_EmptyObjectReached ==
    /\ oracle.pc = "returned" /\ oracle.json_mode
    /\ LastAnswer = "200_empty_object"
    /\ oracle.result = "empty"
    /\ oracle.text = Text(<<"ticket", "history">>)
    /\ oracle.cls.intents = IntentList(<<"get_customer_history">>)

\* C31: every invoke_tool call that spawned a host has a host process of its own,
\* shared with no other call; a host serves at most one tool call, issued on a
\* session whose initialization has completed; the session is closed before the
\* host is ended; and a call that has returned, with a result, an error result or
\* after a failure, has left its session closed and its host ended.
C31_HostLifecycle ==
    /\ \A i \in 1..MaxCalls :
          LET c == hosts.calls[i]
          IN  /\ c.host # 0 =>
                    /\ c.host \in DOMAIN hosts.procs
                    /\ hosts.procs[c.host].owner = i
                    /\ \A j \in 1..MaxCalls : j # i => hosts.calls[j].host # c.host
              /\ c.pc = "returned" =>
                    \/ c.host = 0 /\ c.run = "spawn_fail"
                    \/ /\ c.host # 0
                       /\ hosts.procs[c.host].state = "terminated"
                       /\ hosts.procs[c.host].session = "closed"
                       /\ hosts.procs[c.host].tool_calls = (IF c.run = "init_fail" THEN 0 ELSE 1)
              /\ c.pc \in {"spawned", "session", "initialized", "leave_session", "leave_host"}
                    => hosts.procs[c.host].state = "running"
    /\ \A h \in DOMAIN hosts.procs :
          /\ hosts.procs[h].tool_calls <= 1
          /\ ~hosts.procs[h].premature
          /\ hosts.procs[h].tool_calls = 1 => hosts.procs[h].session \in {"initialized", "closed"}
          /\ hosts.procs[h].state = "terminated" => hosts.procs[h].session = "closed"

\* C31 witness: two calls overlap, each on its own host.  The second call spawned
\* its host first and has initialized its session; the first call, spawned after
\* it, has already failed in its tool call and returned the error result, its
\* session closed and its host ended, while the second's host still runs.
C31_Witness ==
    /\ hosts.calls[2].host = 1
    /\ hosts.calls[2].pc = "initialized"
    /\ hosts.procs[1].state = "running"
    /\ hosts.procs[1].tool_calls = 0
    /\ hosts.calls[1].host = 2
    /\ hosts.calls[1].pc = "returned"
    /\ hosts.calls[1].run = "call_fail"
    /\ hosts.calls[1].res.status = "error"
    /\ hosts.procs[2].state = "terminated"
    /\ hosts.procs[2].session = "closed"

\* C32 (as claimed): whenever a handler has a peer call or an oracle call pending,
\* the call runs on a worker thread and the event loop thread is free for the
\* other handlers of the process.
C32_OutboundCallsOffloaded ==
    \A h \in 1..MaxRequests :
        (loop.handlers[h].call \in {"peer", "oracle"} /\ loop.handlers[h].where # "ready")
            => loop.handlers[h].where = "worker" /\ loop.running = 0

\* the part of C32 the code keeps: a pending peer call runs on a worker thread
C32_PeerCallsOffloaded ==
    \A h \in 1..MaxRequests :
        (loop.handlers[h].call = "peer" /\ loop.handlers[h].where # "ready")
            => loop.handlers[h].where = "worker" /\ loop.running # h

\* the stall: the router classifies for one request inside its event loop thread
\* while the peer calls of another request have completed and its handler waits
\* to be resumed
C32_StallReached ==
    /\ loop.agent = "router"
    /\ loop.running = 1
    /\ loop.handlers[1].pc = "classifying"
    /\ loop.handlers[1].where = "loop"
    /\ loop.handlers[2].pc = "gathering"
    /\ loop.handlers[2].where = "ready"
    /\ ~ENABLED Resume(2)

\* C33: one send_message makes at most one network request, whatever max_attempts
\* the connector was built with: none when the outbound envelope fails validation,
\* and exactly one otherwise, also when that request fails (no connection, timeout,
\* non-success status, unreadable body).
C33_AtMostOneRequest ==
    sent.op = "send" =>
        /\ sent.requests <= 1
        /\ Lacks(sent.message) # {} => sent.requests = 0
        /\ Lacks(sent.message) = {} => sent.requests = 1

\* C33 witness: a connector built with three attempts sends a valid envelope, the
\* request times out, and the error result comes back after that one request.
C33_Witness ==
    /\ sent.op = "send"
    /\ sent.max_attempts = 3
    /\ Lacks(sent.message) = {}
    /\ sent.net = "timeout"
    /\ sent.res.status = "error"
    /\ sent.requests = 1

\* C34: a query that has been accepted and classified, its peer calls started,
\* eventually returns its response, one entry per call, provided every peer call
\* ends with a reply, a failure or a timeout.
C34_QueryReturns ==
    (pc = "gathering") ~> (pc = "done" /\ response.status = "ok"
                                        /\ Len(response.results) = Len(tasks))

\* C34 witness: a query with two peer calls, one that failed on the network and
\* one that was answered, has returned its response.
C34_Witness ==
    /\ pc = "done"
    /\ Len(tasks) = 2
    /\ returned[1].status = "error" /\ returned[1].env = AbsentEnvelope
    /\ returned[2].env.type = "response"
    /\ response.status = "ok"
    /\ Len(response.results) = 2

=============================================================================
